---- MODULE Spec2Model ----
(***************************************************************************)
(* Cycle-EMA pantry predictor: CycleEmaState, the event dispatcher, the    *)
(* habit refresh and the daily State-Decay job of SMART__PANTRY.           *)
(*                                                                         *)
(* Python floats are modelled as exact rationals <<num, den>> (den > 0,    *)
(* lowest terms), so IEEE rounding is abstracted away.  Timestamps are     *)
(* whole days since an epoch; None (a null timestamp) is -1 and NoneQ (a   *)
(* null float) is <<0, 0>>.                                                *)
(***************************************************************************)
EXTENDS Integers, Sequences, FiniteSets, TLC

\* ------------------------------------------------------------------ bounds
MaxDay == 1
MaxLog == 2
MaxQty == 8
MaxDen == 8
MaxCensored == 1
MaxHabits == 1
MaxDispatch == 2
MaxUpdates == 1
MaxCycles == 1
MaxObs == 4
MaxChain == 3
MaxReplayDay == 5
MaxReplayLog == 3
MaxAttempts == 2
MaxStepDay == 2
MaxSchedDay == 3
MaxRaises == 1
MaxLoopDay == 7
MaxProducts == 3
MaxReceiptQty == 1
MaxConfCycles == 3
MaxHabitDay == 2
MaxRunDay == 9
MaxHabitRows == 2
MaxEvents == 2
MaxGap == 2
MaxCatalogue == 3
MaxIterations == 2

\* ---------------------------------------------------------------- rationals
None == -1
NoneQ == <<0, 0>>

Abs(i) == IF i < 0 THEN -i ELSE i

RECURSIVE GCD(_, _)
GCD(a, b) == IF b = 0 THEN a ELSE GCD(b, a % b)

Q(n, d) ==
    LET g == GCD(Abs(n), Abs(d))
        s == IF d < 0 THEN -1 ELSE 1
    IN  <<(s * n) \div g, (s * d) \div g>>

QI(i) == <<i, 1>>
\* Operands are in lowest terms; the common factors are divided out before
\* multiplying so that intermediate products stay small.
QAdd(a, b) ==
    LET g == GCD(a[2], b[2])
    IN  Q(a[1] * (b[2] \div g) + b[1] * (a[2] \div g), (a[2] \div g) * b[2])
QNeg(a) == <<-a[1], a[2]>>
QSub(a, b) == QAdd(a, QNeg(b))
QMul(a, b) ==
    LET g1 == GCD(Abs(a[1]), b[2])
        g2 == GCD(Abs(b[1]), a[2])
    IN  Q((a[1] \div g1) * (b[1] \div g2), (a[2] \div g2) * (b[2] \div g1))
QInv(a) == IF a[1] < 0 THEN <<-a[2], -a[1]>> ELSE <<a[2], a[1]>>
QDiv(a, b) == QMul(a, QInv(b))
QLe(a, b) ==
    LET g == GCD(a[2], b[2])
    IN  a[1] * (b[2] \div g) <= b[1] * (a[2] \div g)
QLt(a, b) == ~QLe(b, a)
QMax(a, b) == IF QLe(a, b) THEN b ELSE a
QMin(a, b) == IF QLe(a, b) THEN a ELSE b
QAbs(a) == <<Abs(a[1]), a[2]>>

\* ------------------------------------------------------------------- enums
InventoryStates == {"EMPTY", "LOW", "MEDIUM", "FULL", "UNKNOWN"}
FeedbackKinds == {"MORE", "LESS", "EXACT", "EMPTY", "WASTED"}
\* app/models/enums.py InventoryAction, plus RESET of the predictor's own enum
DbActions == {"PURCHASE", "ADJUST", "TRASH", "EMPTY", "REPURCHASE", "RESET"}
NoEvent == "NONE"

\* ------------------------------------------------------------------ config
\* The default profile written by get_active_predictor_profile.
alpha_strong == Q(12, 100)
alpha_confirm == Q(5, 100)
min_cycle_days == QI(1)
max_cycle_days == QI(90)
full_ratio == Q(70, 100)
medium_ratio == Q(30, 100)
prior_mean_days == QI(7)
prior_mad_days == QI(2)
mad_floor == Q(1, 10)
eps == Q(1, 1000000)

\* ----------------------------------------------------------------- helpers
_days_between(a, b) == QI(Abs(a - b))

_clamp(x, lo, hi) == QMax(lo, QMin(hi, x))

\* derive_state with the labels of the two upper bands exchanged
derive_state_swapped(days_left, mean_days) ==
    IF QLe(days_left, QI(0)) THEN "EMPTY"
    ELSE LET denom == QMax(mean_days, eps)
             ratio == QDiv(days_left, denom)
         IN  IF QLt(ratio, Q(2, 100)) THEN "EMPTY"
             ELSE IF QLe(full_ratio, ratio) THEN "MEDIUM"
             ELSE IF QLe(medium_ratio, ratio) THEN "FULL"
             ELSE "LOW"

derive_state(days_left, mean_days) ==
    IF QLe(days_left, QI(0)) THEN "EMPTY"
    ELSE LET denom == QMax(mean_days, eps)
             ratio == QDiv(days_left, denom)
         IN  IF QLt(ratio, Q(2, 100)) THEN "EMPTY"
             ELSE IF QLe(full_ratio, ratio) THEN "FULL"
             ELSE IF QLe(medium_ratio, ratio) THEN "MEDIUM"
             ELSE "LOW"

compute_days_left(state, now_, multiplier, inventory_days_left) ==
    IF inventory_days_left # NoneQ
    THEN QMax(QDiv(inventory_days_left, QMax(multiplier, eps)), QI(0))
    ELSE IF state.cycle_started_at = None THEN QI(0)
    ELSE LET elapsed == _days_between(now_, state.cycle_started_at)
             base_left == QMax(QSub(state.cycle_mean_days, elapsed), QI(0))
         IN  QMax(QDiv(base_left, QMax(multiplier, eps)), QI(0))

init_state_from_category(now_) ==
    [ cycle_mean_days |-> _clamp(prior_mean_days, min_cycle_days, max_cycle_days),
      cycle_mad_days |-> QMax(prior_mad_days, mad_floor),
      cycle_started_at |-> None,
      last_purchase_at |-> None,
      last_update_at |-> now_,
      n_strong_updates |-> 0,
      n_total_updates |-> 0,
      n_completed_cycles |-> 0,
      last_pred_days_left |-> NoneQ,
      censored_cycles |-> 0,
      waste_events |-> 0,
      last_feedback_at |-> None,
      empty_at |-> None ]

\* ----------------------------------------------------------- update rules
EmaMean(old_mean, n_cycles, observed) ==
    QAdd(QMul(QSub(QI(1), alpha_strong), old_mean), QMul(alpha_strong, observed))

\* apply_purchase's new mean before the clamp: the observed cycle for the
\* first completed cycle, else the cumulative average
CumulativeMean(old_mean, n_cycles, observed) ==
    IF n_cycles = 0 THEN observed
    ELSE QDiv(QAdd(QMul(old_mean, QI(n_cycles)), observed), QI(n_cycles + 1))

NeverCensored(state, current_state, should_update_mean) == FALSE

\* The censored branch taken whether or not the mean was updated
CensoredAlso(state, current_state, should_update_mean) ==
    /\ state.cycle_started_at # None
    /\ current_state \in {"FULL", "MEDIUM"}

\* apply_purchase's censored branch: no mean update, an active cycle, and the
\* product still FULL or MEDIUM
IsCensored(state, current_state, should_update_mean) ==
    /\ ~should_update_mean
    /\ state.cycle_started_at # None
    /\ current_state \in {"FULL", "MEDIUM"}

\* apply_purchase without the reset of empty_at
apply_purchase_keeping_empty_at(state, ts, current_state) ==
    LET case1 == state.empty_at # None /\ state.cycle_started_at # None
        case2 == ~case1 /\ state.empty_at = None /\ current_state = "LOW"
                    /\ state.cycle_started_at # None
        should_update_mean == case1 \/ case2
        observed == _clamp(IF case1
                           THEN _days_between(state.empty_at, state.cycle_started_at)
                           ELSE _days_between(ts, state.cycle_started_at),
                           min_cycle_days, max_cycle_days)
        old_mean == state.cycle_mean_days
        n_cycles == state.n_completed_cycles
        new_mean == _clamp(CumulativeMean(old_mean, n_cycles, observed),
                           min_cycle_days, max_cycle_days)
        err == QSub(observed, old_mean)
        new_mad == _clamp(IF n_cycles = 0
                          THEN (IF QLt(QI(0), QAbs(err)) THEN QAbs(err) ELSE mad_floor)
                          ELSE QDiv(QAdd(QMul(state.cycle_mad_days, QI(n_cycles)), QAbs(err)),
                                    QI(n_cycles + 1)),
                          mad_floor, max_cycle_days)
        censored == IsCensored(state, current_state, should_update_mean)
    IN  [ state EXCEPT
            !.cycle_mean_days = IF should_update_mean THEN new_mean ELSE @,
            !.cycle_mad_days = IF should_update_mean THEN new_mad ELSE @,
            !.n_completed_cycles = IF should_update_mean THEN @ + 1 ELSE @,
            !.n_strong_updates = IF should_update_mean THEN @ + 1 ELSE @,
            !.censored_cycles = IF censored THEN @ + 1 ELSE @,
            !.cycle_started_at = ts,
            !.last_purchase_at = ts,
            !.last_update_at = ts ]

\* apply_purchase: ts is ev.ts, current_state the coarse inventory state the
\* dispatcher hands in ("NONE" for Python's None).
apply_purchase(state, ts, current_state) ==
    LET case1 == state.empty_at # None /\ state.cycle_started_at # None
        case2 == ~case1 /\ state.empty_at = None /\ current_state = "LOW"
                    /\ state.cycle_started_at # None
        should_update_mean == case1 \/ case2
        observed == _clamp(IF case1
                           THEN _days_between(state.empty_at, state.cycle_started_at)
                           ELSE _days_between(ts, state.cycle_started_at),
                           min_cycle_days, max_cycle_days)
        old_mean == state.cycle_mean_days
        n_cycles == state.n_completed_cycles
        new_mean == _clamp(CumulativeMean(old_mean, n_cycles, observed),
                           min_cycle_days, max_cycle_days)
        err == QSub(observed, old_mean)
        new_mad == _clamp(IF n_cycles = 0
                          THEN (IF QLt(QI(0), QAbs(err)) THEN QAbs(err) ELSE mad_floor)
                          ELSE QDiv(QAdd(QMul(state.cycle_mad_days, QI(n_cycles)), QAbs(err)),
                                    QI(n_cycles + 1)),
                          mad_floor, max_cycle_days)
        censored == IsCensored(state, current_state, should_update_mean)
    IN  [ state EXCEPT
            !.cycle_mean_days = IF should_update_mean THEN new_mean ELSE @,
            !.cycle_mad_days = IF should_update_mean THEN new_mad ELSE @,
            !.n_completed_cycles = IF should_update_mean THEN @ + 1 ELSE @,
            !.n_strong_updates = IF should_update_mean THEN @ + 1 ELSE @,
            !.censored_cycles = IF censored THEN @ + 1 ELSE @,
            !.cycle_started_at = ts,
            !.last_purchase_at = ts,
            !.last_update_at = ts,
            !.empty_at = None ]

\* ------------------------------------------------------------ note parsing
Contains(s, sub) ==
    \E i \in 1..(Len(s) - Len(sub) + 1) : SubSeq(s, i, i + Len(sub) - 1) = sub

LowerChar(c) ==
    CASE c = "A" -> "a" [] c = "B" -> "b" [] c = "C" -> "c" [] c = "D" -> "d"
      [] c = "E" -> "e" [] c = "F" -> "f" [] c = "G" -> "g" [] c = "H" -> "h"
      [] c = "I" -> "i" [] c = "J" -> "j" [] c = "K" -> "k" [] c = "L" -> "l"
      [] c = "M" -> "m" [] c = "N" -> "n" [] c = "O" -> "o" [] c = "P" -> "p"
      [] c = "Q" -> "q" [] c = "R" -> "r" [] c = "S" -> "s" [] c = "T" -> "t"
      [] c = "U" -> "u" [] c = "V" -> "v" [] c = "W" -> "w" [] c = "X" -> "x"
      [] c = "Y" -> "y" [] c = "Z" -> "z" [] OTHER -> c

RECURSIVE Lower(_)
Lower(s) == IF Len(s) = 0 THEN ""
            ELSE LowerChar(SubSeq(s, 1, 1)) \o Lower(SubSeq(s, 2, Len(s)))

UpperChar(c) ==
    CASE c = "a" -> "A" [] c = "b" -> "B" [] c = "c" -> "C" [] c = "d" -> "D"
      [] c = "e" -> "E" [] c = "f" -> "F" [] c = "g" -> "G" [] c = "h" -> "H"
      [] c = "i" -> "I" [] c = "j" -> "J" [] c = "k" -> "K" [] c = "l" -> "L"
      [] c = "m" -> "M" [] c = "n" -> "N" [] c = "o" -> "O" [] c = "p" -> "P"
      [] c = "q" -> "Q" [] c = "r" -> "R" [] c = "s" -> "S" [] c = "t" -> "T"
      [] c = "u" -> "U" [] c = "v" -> "V" [] c = "w" -> "W" [] c = "x" -> "X"
      [] c = "y" -> "Y" [] c = "z" -> "Z" [] OTHER -> c
RECURSIVE Upper(_)
Upper(s) == IF Len(s) = 0 THEN ""
            ELSE UpperChar(SubSeq(s, 1, 1)) \o Upper(SubSeq(s, 2, Len(s)))

\* json.loads on the notes of the model: the value of obj.get("feedback_kind")
\* or obj.get("kind") for the notes that are JSON objects, "" for every other
\* note (not JSON, or no such key).
JsonKind(s) ==
    CASE s = "{\"feedback_kind\":\"more\"}" -> "more"
      [] s = "{\"kind\":\"WASTED\"}" -> "WASTED"
      [] s = "{\"feedback_kind\":\"later\"}" -> "later"
      [] OTHER -> ""

\* parse_feedback_from_note; "" is Python's None note.  Notes are ASCII, so
\* the Hebrew keyword alternatives never match and are left out.
parse_feedback_from_note(note) ==
    IF note = "" THEN NoEvent
    ELSE LET k == Upper(JsonKind(note))
             low == Lower(note)
         IN  IF k # "" /\ k \in FeedbackKinds THEN k
             ELSE IF Contains(low, "wasted") \/ Contains(low, "thrown") THEN "WASTED"
             ELSE IF Contains(low, "empty") \/ Contains(low, "out") THEN "EMPTY"
             ELSE IF Contains(low, "exact") THEN "EXACT"
             ELSE IF Contains(low, "more") THEN "MORE"
             ELSE IF Contains(low, "less") THEN "LESS"
             ELSE NoEvent

\* map_inventory_log_row_to_event: the pair (PurchaseEvent, FeedbackEvent) as
\* [purchase, feedback, ts, note]; feedback is the FeedbackKind or "NONE".
map_inventory_log_row_to_event(row) ==
    LET action == Upper(row.action)
        fb == parse_feedback_from_note(row.note)
        delta_state == Upper(row.delta_state)
    IN  IF action \in {"PURCHASE", "RESET"}
        THEN [purchase |-> TRUE, feedback |-> NoEvent, ts |-> row.occurred_at, note |-> ""]
        ELSE IF fb # NoEvent
        THEN [purchase |-> FALSE, feedback |-> fb, ts |-> row.occurred_at, note |-> row.note]
        ELSE IF delta_state = "EMPTY"
        THEN [purchase |-> FALSE, feedback |-> "EMPTY", ts |-> row.occurred_at, note |-> ""]
        ELSE IF delta_state = "FULL"
        THEN [purchase |-> TRUE, feedback |-> NoEvent, ts |-> row.occurred_at, note |-> ""]
        ELSE [purchase |-> FALSE, feedback |-> NoEvent, ts |-> row.occurred_at, note |-> ""]

\* apply_feedback
\* apply_feedback storing the time of every event in empty_at
apply_feedback_overwriting(state, ts, kind, note) ==
    [state EXCEPT !.last_update_at = ts, !.n_total_updates = @ + 1, !.empty_at = ts]

\* apply_feedback learning from MORE / LESS at once
apply_feedback_learning(state, ts, kind, note) ==
    [state EXCEPT !.last_update_at = ts, !.n_total_updates = @ + 1,
                  !.last_feedback_at = ts,
                  !.cycle_mean_days = QMul(@, Q(115, 100))]

\* apply_feedback not counting the waste
apply_feedback_uncounted(state, ts, kind, note) ==
    [state EXCEPT !.last_update_at = ts, !.n_total_updates = @ + 1,
                  !.cycle_started_at = None,
                  !.cycle_mad_days = _clamp(QMul(@, Q(103, 100)), mad_floor, max_cycle_days)]

\* apply_feedback leaving the cycle open on every event
apply_feedback_keeping_cycle(state, ts, kind, note) ==
    [state EXCEPT !.last_update_at = ts, !.n_total_updates = @ + 1,
                  !.waste_events = IF kind = "WASTED" THEN @ + 1 ELSE @,
                  !.empty_at = IF kind = "EMPTY" /\ @ = None THEN ts ELSE @]

apply_feedback(state, ts, kind, note) ==
    LET s0 == [state EXCEPT !.last_update_at = ts, !.n_total_updates = @ + 1]
        reason == Lower(note)
        inflate == [s0 EXCEPT
                      !.waste_events = @ + 1,
                      !.cycle_started_at = None,
                      !.cycle_mad_days = _clamp(QMul(@, Q(103, 100)), mad_floor, max_cycle_days)]
        a == QMul(alpha_strong, Q(2, 10))
        observed == _clamp(_days_between(ts, s0.cycle_started_at), min_cycle_days, max_cycle_days)
        old_mean == s0.cycle_mean_days
        weak_mean == _clamp(QAdd(QMul(QSub(QI(1), a), old_mean), QMul(a, observed)),
                            min_cycle_days, max_cycle_days)
        weak_mad == _clamp(QAdd(QMul(QSub(QI(1), a), s0.cycle_mad_days),
                                QMul(QMul(a, QAbs(QSub(observed, old_mean))), Q(1, 2))),
                           mad_floor, max_cycle_days)
    IN  CASE kind = "EMPTY" ->
               [s0 EXCEPT !.empty_at = IF @ = None THEN ts ELSE @]
          [] kind = "WASTED" ->
               IF Contains(reason, "taste") \/ Contains(reason, "expired") THEN inflate
               ELSE IF Contains(reason, "ran out") \/ Contains(reason, "empty")
               THEN [s0 EXCEPT
                       !.waste_events = @ + 1,
                       !.cycle_mean_days = IF s0.cycle_started_at # None THEN weak_mean ELSE @,
                       !.cycle_mad_days = IF s0.cycle_started_at # None THEN weak_mad ELSE @,
                       !.cycle_started_at = None]
               ELSE inflate
          [] kind = "EXACT" ->
               [s0 EXCEPT !.cycle_mad_days =
                   _clamp(QMul(QSub(QI(1), alpha_confirm), @), mad_floor, max_cycle_days)]
          [] kind \in {"MORE", "LESS"} ->
               [s0 EXCEPT !.last_feedback_at = ts]
          [] OTHER -> s0

\* predict without the confidence (the forecast's days_left and coarse state)
predict(state, now_, multiplier, inventory_days_left) ==
    LET days_left == compute_days_left(state, now_, multiplier, inventory_days_left)
    IN  [ expected_days_left |-> days_left,
          predicted_state |-> derive_state(days_left, state.cycle_mean_days),
          generated_at |-> now_ ]

stamp_last_prediction(state, fc) ==
    [state EXCEPT !.last_pred_days_left = fc.expected_days_left]

\* ------------------------------------------------------------------ habits
\* Habit effects as seen by the one (user, product) of the model: gm is
\* global_multiplier, pm is product_multipliers[product], cm is
\* category_multipliers[category]; NoneQ is a missing key.
Effects(gm, pm, cm) == [gm |-> gm, pm |-> pm, cm |-> cm]
EffectsSet ==
    { Effects(NoneQ, Q(1, 2), QI(4)),
      Effects(Q(1, 20), NoneQ, NoneQ) }

OrOne(x) == IF x = NoneQ THEN QI(1) ELSE x

_extract_multiplier_from_effects(effects) ==
    QMax(QMul(QMul(OrOne(effects.gm), OrOne(effects.pm)), OrOne(effects.cm)), eps)

RECURSIVE HabitProduct(_)
HabitProduct(hs) ==
    IF Len(hs) = 0 THEN QI(1)
    ELSE QMul(QMul(QMul(OrOne(Head(hs).gm), OrOne(Head(hs).pm)), OrOne(Head(hs).cm)),
              HabitProduct(Tail(hs)))

get_active_habit_multiplier(hs) == QMax(HabitProduct(hs), eps)

\* ------------------------------------------------------------------- state
VARIABLES
    now,        \* wall clock, in days
    pstate,     \* product_predictor_state row: <<>> or <<CycleEmaState>>
    inv,        \* inventory row [state, estimated_qty]
    log,        \* inventory_log rows, log_id = index
    tasks,      \* scheduled background dispatches, in scheduling order
    ndispatch,  \* how many times process_inventory_log ran per log_id
    habits,     \* effects of the user's ACTIVE habits
    last_op,    \* what the last step did
    snap,       \* the state the habit creation of the last step started from
    mrow, mev,  \* a log row and its classification
    rlog, runs, \* a log and two replays of it
    cobs,       \* observed cycle lengths of the Purchase/EMPTY chain
    procs,      \* operations in progress: their position and what they read
    snapshots,  \* inventory_forecasts rows, oldest first
    sched,      \* the background jobs of each server worker
    ran,        \* per UTC day, how often each job's run body ran
    prods,      \* the inventory products of one user: <<[pstate, inv], ...>>
    cursor,     \* progress of a State-Decay run over prods
    args,       \* arguments of a function call
    result,     \* <<>> or <<its result>>
    hrows       \* habits rows of the user, of any status

mainVars == <<now, pstate, inv, log, tasks, ndispatch, habits, last_op, snap>>
mapVars == <<mrow, mev>>
replayVars == <<rlog, runs>>
stepVars == <<procs, snapshots>>
schedVars == <<sched, ran>>
loopVars == <<prods, cursor>>
fnVars == <<args, result>>
habitVars == <<hrows>>
extVars == <<stepVars, schedVars, loopVars, fnVars, habitVars>>
vars == <<now, pstate, inv, log, tasks, ndispatch, habits, last_op, snap,
          mrow, mev, rlog, runs, cobs, procs, snapshots, sched, ran,
          prods, cursor, args, result, hrows>>

NoSnap == [set |-> FALSE, mean |-> NoneQ, last_pred |-> NoneQ,
           effects |-> Effects(NoneQ, NoneQ, NoneQ), saturated |-> FALSE]

Op(op, purchase, feedback, current_state, base) ==
    [op |-> op, purchase |-> purchase, feedback |-> feedback,
     current_state |-> current_state, base |-> base]

\* _load_or_init_state
_load_or_init_state(ps, now_) ==
    IF Len(ps) = 0 THEN init_state_from_category(now_) ELSE ps[1]

\* predict_after_purchase: the forecast after a purchase, multiplier 1.0
predict_after_purchase(state, now_) == predict(state, now_, QI(1), NoneQ)

\* The coarse state apply_purchase is handed: state_before_purchase when the
\* caller passed one, else the inventory row's state read from the store.
CurrentState(ev, sbp, iv) ==
    IF ev.purchase /\ sbp = "NONE" THEN iv.state ELSE sbp

\* process_inventory_log forecasting every event, a purchase too, with the
\* resolved habit multiplier
process_inventory_log_multiplied(ps, iv, row, sbp, now_, hs) ==
    LET state0 == _load_or_init_state(ps, now_)
        ev == map_inventory_log_row_to_event(row)
        current_state == CurrentState(ev, sbp, iv)
        state1 == IF ev.purchase THEN apply_purchase(state0, ev.ts, current_state) ELSE state0
        state2 == IF ev.feedback # NoEvent
                  THEN apply_feedback(state1, ev.ts, ev.feedback, ev.note) ELSE state1
        fc == predict(state2, now_, get_active_habit_multiplier(hs), NoneQ)
    IN  [ pstate |-> <<stamp_last_prediction(state2, fc)>>,
          inv |-> [state |-> fc.predicted_state, estimated_qty |-> fc.expected_days_left],
          op |-> Op("dispatch", ev.purchase, ev.feedback, current_state, FALSE) ]

\* process_inventory_log: the state, inventory row and forecast it writes
process_inventory_log(ps, iv, row, sbp, now_, hs) ==
    LET state0 == _load_or_init_state(ps, now_)
        ev == map_inventory_log_row_to_event(row)
        current_state == CurrentState(ev, sbp, iv)
        state1 == IF ev.purchase THEN apply_purchase(state0, ev.ts, current_state) ELSE state0
        state2 == IF ev.feedback # NoEvent
                  THEN apply_feedback(state1, ev.ts, ev.feedback, ev.note) ELSE state1
        fc == IF ev.purchase THEN predict_after_purchase(state2, now_)
              ELSE predict(state2, now_, get_active_habit_multiplier(hs), NoneQ)
    IN  [ pstate |-> <<stamp_last_prediction(state2, fc)>>,
          inv |-> [state |-> fc.predicted_state, estimated_qty |-> fc.expected_days_left],
          op |-> Op("dispatch", ev.purchase, ev.feedback, current_state, FALSE) ]

\* refresh_user_inventory_forecasts, for the product
refresh_user_inventory_forecasts(ps, now_, hs) ==
    LET state == _load_or_init_state(ps, now_)
        base_days_left == state.last_pred_days_left
        fc == predict(state, now_, get_active_habit_multiplier(hs), base_days_left)
    IN  [ pstate |-> <<stamp_last_prediction(state, fc)>>,
          inv |-> [state |-> fc.predicted_state, estimated_qty |-> fc.expected_days_left],
          op |-> Op("refresh", FALSE, NoEvent, "NONE", base_days_left # NoneQ) ]

HabitMeanUnclamped(mean, habit_mult, is_deletion) ==
    IF is_deletion THEN QMul(mean, habit_mult) ELSE QDiv(mean, habit_mult)

\* The mean a habit refresh writes: divided (creation) or multiplied
\* (deletion) by the habit's multiplier, then clamped.
HabitMean(mean, habit_mult, is_deletion) ==
    _clamp(IF is_deletion THEN QMul(mean, habit_mult) ELSE QDiv(mean, habit_mult),
           min_cycle_days, max_cycle_days)

HabitDaysLeftDivided(last_pred, habit_mult, is_deletion) ==
    IF last_pred = NoneQ THEN NoneQ ELSE QDiv(last_pred, habit_mult)

\* The days_left a habit refresh derives from the last prediction: divided
\* (creation) or multiplied (deletion); null when there was no prediction.
HabitDaysLeft(last_pred, habit_mult, is_deletion) ==
    IF last_pred = NoneQ THEN NoneQ
    ELSE IF is_deletion THEN QMul(last_pred, habit_mult)
    ELSE QDiv(last_pred, habit_mult)

\* refresh_products_affected_by_habit, for the product
refresh_products_affected_by_habit(ps, effects, is_deletion, now_) ==
    LET state0 == _load_or_init_state(ps, now_)
        habit_mult == _extract_multiplier_from_effects(effects)
        new_days_left == HabitDaysLeft(state0.last_pred_days_left, habit_mult, is_deletion)
        state1 == [state0 EXCEPT
                     !.cycle_mean_days = HabitMean(@, habit_mult, is_deletion)]
        expected_days_left ==
            IF new_days_left # NoneQ THEN new_days_left
            ELSE IF state1.cycle_started_at # None
            THEN QMax(QI(0), QSub(state1.cycle_mean_days,
                                  _days_between(now_, state1.cycle_started_at)))
            ELSE state1.cycle_mean_days
        fc == [ expected_days_left |-> expected_days_left,
                predicted_state |-> derive_state(expected_days_left, state1.cycle_mean_days),
                generated_at |-> now_ ]
    IN  [ pstate |-> <<stamp_last_prediction(state1, fc)>>,
          inv |-> [state |-> fc.predicted_state, estimated_qty |-> fc.expected_days_left],
          op |-> Op(IF is_deletion THEN "habit_delete" ELSE "habit_create",
                    FALSE, NoEvent, "NONE", new_days_left # NoneQ) ]

\* The product is affected when the effects name it, its category, or all.
Affected(effects) == effects.gm # NoneQ \/ effects.pm # NoneQ \/ effects.cm # NoneQ

\* daily_state_update_all_products, for the product: d0 is the days_left the
\* run starts from.
DecayBase(ps, iv, now_, hs) ==
    IF iv.estimated_qty # NoneQ THEN iv.estimated_qty
    ELSE compute_days_left(_load_or_init_state(ps, now_), now_,
                           get_active_habit_multiplier(hs), NoneQ)

DecayStepUnfloored(d0) == QSub(d0, QI(1))

\* new_days_left = max(0.0, current_days_left - 1.0)
DecayStep(d0) == QMax(QI(0), QSub(d0, QI(1)))

daily_state_update(ps, iv, now_, hs) ==
    LET state0 == _load_or_init_state(ps, now_)
        new_days_left == DecayStep(DecayBase(ps, iv, now_, hs))
        state1 == [state0 EXCEPT
                     !.empty_at = IF QLe(new_days_left, QI(0)) /\ @ = None THEN now_ ELSE @,
                     !.last_pred_days_left = new_days_left,
                     !.last_update_at = now_]
        new_state == derive_state(new_days_left, state1.cycle_mean_days)
    IN  IF iv.state = "EMPTY"
        THEN [ pstate |-> ps, inv |-> iv, op |-> Op("decay", FALSE, NoEvent, "EMPTY", FALSE) ]
        ELSE [ pstate |-> <<state1>>,
               inv |-> [state |-> new_state, estimated_qty |-> new_days_left],
               op |-> Op("decay", FALSE, NoEvent, iv.state, iv.estimated_qty # NoneQ) ]

\* ----------------------------------------------------------------- actions
Row(action, delta_state, note, occurred_at) ==
    [action |-> action, delta_state |-> delta_state, note |-> note,
     occurred_at |-> occurred_at]

Task(log_id, state_before_purchase) ==
    [log_id |-> log_id, state_before_purchase |-> state_before_purchase]

\* A task as the handler scheduled it; row_state is the inventory row's
\* state when the handler began, before it touched the row.
Scheduled(task, row_state) ==
    [log_id |-> task.log_id, state_before_purchase |-> task.state_before_purchase,
     row_state |-> row_state]

\* Bodies a client posts to POST /inventory/log: <<action, delta_state, note>>
RawInputs ==
    { <<"PURCHASE", "FULL", "">>,
      <<"ADJUST", "", "exact">>,
      <<"ADJUST", "", "{\"feedback_kind\":\"more\"}">> }

\* <<action_type, reason>>
ActionInputs ==
    { <<"thrown_away", "Expired">>, <<"thrown_away", "Ran out">>,
      <<"repurchased", "Ran out">>, <<"ran_out", "Finished">> }

IdleMap == mrow = Row("", "", "", 0) /\ mev = <<>>
IdleReplay == rlog = <<>> /\ runs = <<>>
IdleCycle == cobs = <<>>
IdleSteps == procs = <<>> /\ snapshots = <<>>
IdleSched == sched = <<>> /\ ran = <<>>
IdleLoop == prods = <<>> /\ cursor = 0
IdleFn == args = <<>> /\ result = <<>>
IdleHabits == hrows = <<>>
IdleExt == IdleSteps /\ IdleSched /\ IdleLoop /\ IdleFn /\ IdleHabits

Init ==
    /\ now = 0
    /\ pstate = <<>>
    /\ inv \in { [state |-> "UNKNOWN", estimated_qty |-> NoneQ],
                 [state |-> "FULL", estimated_qty |-> Q(9, 8)] }
    /\ log = <<>>
    /\ tasks = <<>>
    /\ ndispatch = [l \in 1..MaxLog |-> 0]
    /\ habits = <<>>
    /\ last_op = Op("init", FALSE, NoEvent, "NONE", FALSE)
    /\ snap = NoSnap
    /\ IdleMap /\ IdleReplay /\ IdleCycle /\ IdleExt

Tick ==
    /\ now < MaxDay
    /\ now' = now + 1
    /\ last_op' = Op("tick", FALSE, NoEvent, "NONE", FALSE)
    /\ snap' = NoSnap
    /\ UNCHANGED <<pstate, inv, log, tasks, ndispatch, habits, mapVars, replayVars, cobs, extVars>>

\* POST /inventory/log: insert the row, schedule its dispatch
create_inventory_log(body) ==
    /\ Len(log) < MaxLog
    /\ log' = Append(log, Row(body[1], body[2], body[3], now))
    /\ tasks' = Append(tasks, Scheduled(Task(Len(log) + 1, "NONE"), inv.state))
    /\ last_op' = Op("log", FALSE, NoEvent, "NONE", FALSE)
    /\ snap' = NoSnap
    /\ UNCHANGED <<now, pstate, inv, ndispatch, habits, mapVars, replayVars, cobs, extVars>>

\* POST /inventory/{product_id}/action
product_action(action_type, reason) ==
    LET n == Len(log)
        first == CASE action_type = "thrown_away" ->
                        Row("TRASH", "EMPTY", "WASTED: " \o reason, now)
                   [] action_type = "repurchased" ->
                        Row("REPURCHASE", "EMPTY", "PURCHASE: " \o reason, now)
                   [] OTHER ->
                        Row("EMPTY", "EMPTY", "EMPTY: " \o reason, now)
        purchase_log == Row("PURCHASE", "FULL", "PURCHASE: " \o reason, now)
    IN  /\ IF action_type = "repurchased"
           THEN /\ n + 2 <= MaxLog
                /\ log' = log \o <<first, purchase_log>>
                /\ inv' = [inv EXCEPT !.state = "FULL"]
                /\ tasks' = tasks \o <<Scheduled(Task(n + 2, inv.state), inv.state),
                                        Scheduled(Task(n + 1, "NONE"), inv.state)>>
           ELSE /\ n + 1 <= MaxLog
                /\ log' = Append(log, first)
                /\ inv' = [inv EXCEPT !.state = "EMPTY"]
                /\ tasks' = Append(tasks, Scheduled(Task(n + 1, "NONE"), inv.state))
        /\ last_op' = Op("action", FALSE, NoEvent, "NONE", FALSE)
        /\ snap' = NoSnap
        /\ UNCHANGED <<now, pstate, ndispatch, habits, mapVars, replayVars, cobs, extVars>>

\* The model follows days_left values up to MaxQty with denominators up to
\* MaxDen; a write beyond that is outside the explored range.
InRange(out) ==
    /\ QLe(out.inv.estimated_qty, QI(MaxQty))
    /\ out.inv.estimated_qty[2] <= MaxDen

\* One run of process_inventory_log(log_id, state_before_purchase)
Dispatch(log_id, sbp) ==
    \E out \in {process_inventory_log(pstate, inv, log[log_id], sbp, now, habits)},
       s0 \in {_load_or_init_state(pstate, now)} :
        /\ ndispatch[log_id] < MaxDispatch
        /\ out.op.feedback # NoEvent => s0.n_total_updates < MaxUpdates
        /\ InRange(out)
        /\ pstate' = out.pstate
        /\ inv' = out.inv
        /\ last_op' = out.op
        /\ ndispatch' = [ndispatch EXCEPT ![log_id] = @ + 1]
        /\ snap' = NoSnap

\* Rows as the API's call paths insert them: <<action, delta_state, note>>
NewRows ==
    RawInputs \cup
    { <<"ADJUST", "", "less">>,
      <<"TRASH", "EMPTY", "WASTED: Expired">>,
      <<"TRASH", "EMPTY", "WASTED: Ran out">>,
      <<"EMPTY", "EMPTY", "EMPTY: Finished">> }

\* A row is inserted with occurred_at = ts and dispatched at wall clock now
dispatch_new_row(body, ts) ==
    \E out \in {process_inventory_log(pstate, inv, Row(body[1], body[2], body[3], ts),
                                       "NONE", now, habits)},
       s0 \in {_load_or_init_state(pstate, now)} :
        /\ ts \in 0..now
        /\ out.op.feedback # NoEvent => s0.n_total_updates < MaxUpdates
        /\ out.op.purchase => /\ s0.n_completed_cycles < MaxCycles
                              /\ s0.censored_cycles < MaxCensored
        /\ InRange(out)
        /\ pstate' = out.pstate
        /\ inv' = out.inv
        /\ last_op' = out.op
        /\ snap' = NoSnap
        /\ UNCHANGED <<now, log, tasks, ndispatch, habits, mapVars, replayVars, cobs, extVars>>

\* POST /shopping-lists/{id}/complete with one BOUGHT item for the product:
\* the row is set FULL, a PURCHASE row (and an ADJUST row when the item has
\* qty_feedback) is inserted, and each is scheduled with its log_id only
complete_shopping_list(qty_feedback) ==
    LET n == Len(log)
        note == IF qty_feedback = "" THEN "Purchased from shopping list"
                ELSE "Purchased from shopping list | Feedback: " \o qty_feedback
        purchase_log == Row("PURCHASE", "FULL", note, now)
        feedback_kind == IF Upper(qty_feedback) = "NOT_ENOUGH" THEN "LESS"
                         ELSE Upper(qty_feedback)
        feedback_log == Row("ADJUST", "", "FEEDBACK: " \o feedback_kind, now)
    IN  /\ IF qty_feedback = ""
           THEN /\ n + 1 <= MaxLog
                /\ log' = Append(log, purchase_log)
                /\ tasks' = Append(tasks, Scheduled(Task(n + 1, "NONE"), inv.state))
           ELSE /\ n + 2 <= MaxLog
                /\ log' = log \o <<purchase_log, feedback_log>>
                /\ tasks' = tasks \o <<Scheduled(Task(n + 1, "NONE"), inv.state),
                                        Scheduled(Task(n + 2, "NONE"), inv.state)>>
        /\ inv' = [inv EXCEPT !.state = "FULL"]
        /\ last_op' = Op("shopping_list", FALSE, NoEvent, "NONE", FALSE)
        /\ snap' = NoSnap
        /\ UNCHANGED <<now, pstate, ndispatch, habits, mapVars, replayVars, cobs, extVars>>

\* POST /receipts/{id}/confirm with one item for the product: the row is set
\* FULL with the quantity added, the PURCHASE row is inserted and dispatched
\* in the same call
confirm_and_add_to_inventory(quantity) ==
    LET n == Len(log)
        current_qty == IF inv.estimated_qty = NoneQ THEN QI(0) ELSE inv.estimated_qty
        existing == [state |-> "FULL", estimated_qty |-> QAdd(current_qty, QI(quantity))]
        log_entry == Row("PURCHASE", "FULL", "Purchased units from receipt", now)
    IN  \E out \in {process_inventory_log(pstate, existing, log_entry, "NONE", now, habits)} :
            /\ n + 1 <= MaxLog
            /\ log' = Append(log, log_entry)
            /\ InRange(out)
            /\ pstate' = out.pstate
            /\ inv' = out.inv
            /\ last_op' = out.op
            /\ ndispatch' = [ndispatch EXCEPT ![n + 1] = @ + 1]
            /\ snap' = NoSnap
            /\ UNCHANGED <<now, tasks, habits, mapVars, replayVars, cobs, extVars>>

\* A scheduled background task runs
RunTask ==
    /\ Len(tasks) > 0
    /\ Dispatch(Head(tasks).log_id, Head(tasks).state_before_purchase)
    /\ tasks' = Tail(tasks)
    /\ UNCHANGED <<now, log, habits, mapVars, replayVars, cobs, extVars>>

\* POST /predictor/process-log/{log_id}
process_log_endpoint(log_id) ==
    /\ log_id \in 1..Len(log)
    /\ Dispatch(log_id, "NONE")
    /\ UNCHANGED <<now, log, tasks, habits, mapVars, replayVars, cobs, extVars>>

\* POST /habits with status ACTIVE and effects
create_habit(effects) ==
    \E out \in {refresh_products_affected_by_habit(pstate, effects, FALSE, now)},
       s0 \in {_load_or_init_state(pstate, now)},
       m \in {_extract_multiplier_from_effects(effects)} :
        /\ Len(habits) < MaxHabits
        /\ habits' = Append(habits, effects)
        /\ Affected(effects)
        /\ InRange(out)
        /\ pstate' = out.pstate
        /\ inv' = out.inv
        /\ last_op' = out.op
        /\ snap' = [set |-> TRUE, mean |-> s0.cycle_mean_days,
                    last_pred |-> s0.last_pred_days_left, effects |-> effects,
                    saturated |-> QDiv(s0.cycle_mean_days, m) # out.pstate[1].cycle_mean_days]
        /\ UNCHANGED <<now, log, tasks, ndispatch, mapVars, replayVars, cobs, extVars>>

\* DELETE /habits/{habit_id}
delete_habit(i) ==
    /\ i \in 1..Len(habits)
    /\ \E effects \in {habits[i]} :
       \E out \in {refresh_products_affected_by_habit(pstate, effects, TRUE, now)} :
        /\ habits' = SubSeq(habits, 1, i - 1) \o SubSeq(habits, i + 1, Len(habits))
        /\ Affected(effects)
        /\ InRange(out)
        /\ pstate' = out.pstate
        /\ inv' = out.inv
        /\ last_op' = out.op
        /\ snap' = IF last_op.op = "habit_create" /\ snap.set /\ snap.effects = effects
                   THEN snap ELSE NoSnap
        /\ UNCHANGED <<now, log, tasks, ndispatch, mapVars, replayVars, cobs, extVars>>

\* POST /predictor/refresh
refresh_predictions ==
    \E out \in {refresh_user_inventory_forecasts(pstate, now, habits)} :
        /\ InRange(out)
        /\ pstate' = out.pstate
        /\ inv' = out.inv
        /\ last_op' = out.op
        /\ snap' = NoSnap
        /\ UNCHANGED <<now, log, tasks, ndispatch, habits, mapVars, replayVars, cobs, extVars>>

\* The State-Decay job's run body for the user
daily_state_update_all_products ==
    \E out \in {daily_state_update(pstate, inv, now, habits)} :
        /\ InRange(out)
        /\ pstate' = out.pstate
        /\ inv' = out.inv
        /\ last_op' = out.op
        /\ snap' = NoSnap
        /\ UNCHANGED <<now, log, tasks, ndispatch, habits, mapVars, replayVars, cobs, extVars>>

Next ==
    \/ Tick
    \/ \E body \in NewRows, ts \in 0..MaxDay : dispatch_new_row(body, ts)
    \/ \E e \in EffectsSet : create_habit(e)
    \/ \E i \in 1..MaxHabits : delete_habit(i)
    \/ refresh_predictions
    \/ daily_state_update_all_products

Spec == Init /\ [][Next]_vars

\* The dispatcher's call paths, the process-log endpoint included
NextPaths ==
    \/ Tick
    \/ \E body \in RawInputs : create_inventory_log(body)
    \/ \E a \in ActionInputs : product_action(a[1], a[2])
    \/ RunTask
    \/ \E l \in 1..MaxLog : process_log_endpoint(l)
    \/ \E f \in {"", "more"} : complete_shopping_list(f)
    \/ \E q \in 1..MaxReceiptQty : confirm_and_add_to_inventory(q)

SpecPaths == Init /\ [][NextPaths]_vars

\* ------------------------------------------------- classifying a log row
\* Log rows: every action the API's InventoryAction has, with notes and
\* delta_state values as the endpoints write them and as a client may post
\* them ("" is a null column).
MapActions == {"PURCHASE", "RESET", "REPURCHASE", "TRASH", "EMPTY", "ADJUST", "CONSUME"}
MapNotes ==
    { "", "WASTED: Expired", "EMPTY: Finished", "PURCHASE: Ran out", "exact",
      "thrown away", "{\"feedback_kind\":\"more\"}" }
MapDeltas == {"", "EMPTY", "FULL", "LOW"}

InitMap ==
    /\ now = 0
    /\ pstate = <<>>
    /\ inv = [state |-> "UNKNOWN", estimated_qty |-> NoneQ]
    /\ log = <<>>
    /\ tasks = <<>>
    /\ ndispatch = [l \in 1..MaxLog |-> 0]
    /\ habits = <<>>
    /\ last_op = Op("init", FALSE, NoEvent, "NONE", FALSE)
    /\ snap = NoSnap
    /\ mrow \in { Row(a, d, n, t) : a \in MapActions, d \in MapDeltas,
                                    n \in MapNotes, t \in 0..MaxDay }
    /\ mev = <<>>
    /\ IdleReplay /\ IdleCycle /\ IdleExt

\* The dispatcher maps the row to its event
Classify ==
    /\ mev = <<>>
    /\ mev' = <<map_inventory_log_row_to_event(mrow)>>
    /\ UNCHANGED <<mainVars, mrow, replayVars, cobs, extVars>>

SpecMap == InitMap /\ [][Classify]_vars

\* --------------------------------------- the Purchase -> EMPTY -> Purchase chain
\* apply_purchase and apply_feedback(EMPTY) applied in alternation to a fresh
\* state; now is the timestamp of the last event, cobs the cycle lengths
\* empty_at - cycle_started_at observed so far.
InitCycle ==
    /\ now = 0
    /\ pstate = <<>>
    /\ inv = [state |-> "UNKNOWN", estimated_qty |-> NoneQ]
    /\ log = <<>>
    /\ tasks = <<>>
    /\ ndispatch = [l \in 1..MaxLog |-> 0]
    /\ habits = <<>>
    /\ last_op = Op("init", FALSE, NoEvent, "NONE", FALSE)
    /\ snap = NoSnap
    /\ IdleMap /\ IdleReplay /\ IdleExt
    /\ cobs = <<>>

\* A purchase gap days after the last event, on a fresh state or on one that
\* ran out; current_state is whatever the inventory row says
ChainPurchase(gap, current_state) ==
    /\ pstate # <<>> => pstate[1].empty_at # None
    /\ now' = now + gap
    /\ pstate' = <<apply_purchase(_load_or_init_state(pstate, now), now', current_state)>>
    /\ UNCHANGED <<inv, log, tasks, ndispatch, habits, last_op, snap,
                   mapVars, replayVars, cobs, extVars>>

\* The product runs out o days after the purchase
ChainEmpty(o) ==
    /\ pstate # <<>>
    /\ pstate[1].empty_at = None
    /\ Len(cobs) < MaxChain
    /\ now' = now + o
    /\ pstate' = <<apply_feedback(pstate[1], now', "EMPTY", "")>>
    /\ cobs' = Append(cobs, o)
    /\ UNCHANGED <<inv, log, tasks, ndispatch, habits, last_op, snap,
                   mapVars, replayVars, extVars>>

NextCycle ==
    \/ \E gap \in 0..1, cs \in {"NONE", "LOW", "FULL"} : ChainPurchase(gap, cs)
    \/ \E o \in 0..MaxObs : ChainEmpty(o)

SpecCycle == InitCycle /\ [][NextCycle]_vars

\* ------------------------------------------------------- replaying a log
\* Two replays of one ordered log, each from a fresh state (no predictor
\* state row, a never-estimated inventory row) and each with its own wall
\* clock; pos is the number of rows the replay has dispatched.
ReplayBodies ==
    { <<"PURCHASE", "FULL", "">>, <<"ADJUST", "", "exact">>,
      <<"EMPTY", "EMPTY", "EMPTY: Finished">> }

\* Logs of 1..MaxReplayLog rows, ordered by occurred_at
ReplayLogs ==
    UNION { { [i \in 1..n |-> Row(b[i][1], b[i][2], b[i][3], t[i])] :
                b \in [1..n -> ReplayBodies],
                t \in { u \in [1..n -> 0..MaxDay] :
                          \A i \in 1..(n - 1) : u[i] <= u[i + 1] } } :
            n \in 1..MaxReplayLog }

FreshRun == [ pstate |-> <<>>,
              inv |-> [state |-> "UNKNOWN", estimated_qty |-> NoneQ],
              now |-> 0, pos |-> 0 ]

InitReplay ==
    /\ now = 0
    /\ pstate = <<>>
    /\ inv = [state |-> "UNKNOWN", estimated_qty |-> NoneQ]
    /\ log = <<>>
    /\ tasks = <<>>
    /\ ndispatch = [l \in 1..MaxLog |-> 0]
    /\ habits = <<>>
    /\ last_op = Op("init", FALSE, NoEvent, "NONE", FALSE)
    /\ snap = NoSnap
    /\ IdleMap /\ IdleCycle /\ IdleExt
    /\ rlog \in ReplayLogs
    /\ runs = <<FreshRun, FreshRun>>

\* A day passes on replay r's wall clock
ReplayTick(r) ==
    /\ runs[r].now < MaxReplayDay
    /\ runs' = [runs EXCEPT ![r].now = @ + 1]
    /\ UNCHANGED <<mainVars, mapVars, rlog, cobs, extVars>>

\* Replay r dispatches its next row, at its wall clock
ReplayDispatch(r) ==
    /\ runs[r].pos < Len(rlog)
    /\ rlog[runs[r].pos + 1].occurred_at <= runs[r].now
    /\ \E out \in {process_inventory_log(runs[r].pstate, runs[r].inv,
                                          rlog[runs[r].pos + 1], "NONE",
                                          runs[r].now, <<>>)} :
          runs' = [runs EXCEPT ![r].pstate = out.pstate,
                               ![r].inv = out.inv,
                               ![r].pos = @ + 1]
    /\ UNCHANGED <<mainVars, mapVars, rlog, cobs, extVars>>

NextReplay == \E r \in 1..2 : ReplayTick(r) \/ ReplayDispatch(r)

SpecReplay == InitReplay /\ [][NextReplay]_vars

\* ------------------------------------ handlers as reads and writes of the store
\* One of process_inventory_log, daily_state_update_all_products (for the
\* product) or refresh_user_inventory_forecasts (for the product) in progress:
\* pc is its position, ps and iv are what it read, out is what it computed,
\* before is the store when the first attempt started.
NoInv == [state |-> "UNKNOWN", estimated_qty |-> NoneQ]

StoreOf(ps, iv, fcs) == [pstate |-> ps, inv |-> iv, snapshots |-> fcs]

\* The log row a dispatch runs on has log_id 1; the other handlers have none
Proc(kind, row, before) ==
    [kind |-> kind, row |-> row, pc |-> "load", ps |-> <<>>, iv |-> NoInv,
     out |-> <<>>, attempt |-> 1, before |-> before,
     log_id |-> IF kind = "dispatch" THEN 1 ELSE None]

\* POST /inventory/{product_id}/feedback: the days_left, coarse state and
\* predictor state the endpoint writes for direction "more" or "less"
provide_feedback(ps, iv, direction, now_, hs) ==
    LET state0 == _load_or_init_state(ps, now_)
        mult == get_active_habit_multiplier(hs)
        current_days_left == compute_days_left(state0, now_, mult, iv.estimated_qty)
        is_empty == QLe(current_days_left, Q(1, 100)) \/ iv.state = "EMPTY"
        new_days_left ==
            IF is_empty
            THEN (IF direction = "more"
                  THEN (IF QLt(QI(0), state0.cycle_mean_days)
                        THEN QMul(state0.cycle_mean_days, Q(15, 100)) ELSE Q(3, 2))
                  ELSE QI(0))
            ELSE QMax(QI(0), QMul(current_days_left,
                                  IF direction = "more" THEN Q(115, 100) ELSE Q(85, 100)))
        state1 == [state0 EXCEPT
                     !.empty_at = IF is_empty /\ direction = "more" THEN None ELSE @,
                     !.last_pred_days_left = new_days_left,
                     !.last_update_at = now_]
        new_state == derive_state(new_days_left, state1.cycle_mean_days)
    IN  [ pstate |-> <<state1>>,
          inv |-> [state |-> new_state, estimated_qty |-> new_days_left],
          op |-> Op("feedback", FALSE, NoEvent, iv.state, iv.estimated_qty # NoneQ) ]

\* The habit the step-wise habit refresh is run for
StepHabit == Effects(NoneQ, Q(1, 2), QI(4))

\* What the handler computes from the state and the inventory row it read
Handler(p, ps, iv) ==
    CASE p.kind = "dispatch" -> process_inventory_log(ps, iv, p.row, "NONE", now, habits)
      [] p.kind = "decay" -> daily_state_update(ps, iv, now, habits)
      [] p.kind \in {"more", "less"} -> provide_feedback(ps, iv, p.kind, now, habits)
      [] p.kind = "habit_create" ->
             refresh_products_affected_by_habit(ps, StepHabit, FALSE, now)
      [] p.kind = "habit_delete" ->
             refresh_products_affected_by_habit(ps, StepHabit, TRUE, now)
      [] OTHER -> refresh_user_inventory_forecasts(ps, now, habits)

\* The dispatcher selects the inventory row only for a purchase event; the
\* State-Decay loop and the feedback endpoint select it always; refresh_user
\* and the habit refresh do not.
ReadsInventory(p) ==
    \/ p.kind \in {"decay", "more", "less"}
    \/ p.kind = "dispatch" /\ map_inventory_log_row_to_event(p.row).purchase

stepFrame == <<now, log, tasks, ndispatch, habits, last_op, snap, mapVars,
               replayVars, cobs, schedVars, loopVars, fnVars, habitVars>>

\* self._load_or_init_state(...): select on product_predictor_state
load_state(i) ==
    /\ i \in 1..Len(procs)
    /\ procs[i].pc = "load"
    /\ procs' = [procs EXCEPT
                   ![i].ps = pstate,
                   ![i].out = IF ReadsInventory(procs[i]) THEN <<>>
                              ELSE <<Handler(procs[i], pstate, NoInv)>>,
                   ![i].pc = IF ReadsInventory(procs[i]) THEN "read_inv"
                             ELSE "write_state"]
    /\ UNCHANGED <<pstate, inv, snapshots, stepFrame>>

\* self.repo.supabase.table("inventory").select(...): the State-Decay loop
\* continues with the next product when the row is EMPTY
read_inventory(i) ==
    /\ i \in 1..Len(procs)
    /\ procs[i].pc = "read_inv"
    /\ procs' = IF procs[i].kind = "decay" /\ inv.state = "EMPTY"
                THEN [procs EXCEPT ![i].iv = inv, ![i].pc = "done"]
                ELSE [procs EXCEPT
                        ![i].iv = inv,
                        ![i].out = <<Handler(procs[i], procs[i].ps, inv)>>,
                        ![i].pc = "write_state"]
    /\ UNCHANGED <<pstate, inv, snapshots, stepFrame>>

\* self.repo.upsert_predictor_state(...)
upsert_predictor_state(i) ==
    /\ i \in 1..Len(procs)
    /\ procs[i].pc = "write_state"
    /\ pstate' = procs[i].out[1].pstate
    /\ procs' = [procs EXCEPT ![i].pc = "write_inv"]
    /\ UNCHANGED <<inv, snapshots, stepFrame>>

\* upsert_inventory_days_estimate writing days_left only
upsert_inventory_days_only(i) ==
    /\ i \in 1..Len(procs)
    /\ procs[i].pc = "write_inv"
    /\ inv' = [inv EXCEPT !.estimated_qty = procs[i].out[1].inv.estimated_qty]
    /\ procs' = [procs EXCEPT
                   ![i].pc = IF procs[i].kind \in {"decay", "more", "less"}
                             THEN "done" ELSE "write_forecast"]
    /\ UNCHANGED <<pstate, snapshots, stepFrame>>

\* self.repo.upsert_inventory_days_estimate(...): the State-Decay loop and the
\* feedback endpoint insert no forecast after it
upsert_inventory_days_estimate(i) ==
    /\ i \in 1..Len(procs)
    /\ procs[i].pc = "write_inv"
    /\ inv' = procs[i].out[1].inv
    /\ procs' = [procs EXCEPT
                   ![i].pc = IF procs[i].kind \in {"decay", "more", "less"}
                             THEN "done" ELSE "write_forecast"]
    /\ UNCHANGED <<pstate, snapshots, stepFrame>>

\* self.repo.insert_forecast(...)
insert_forecast(i) ==
    /\ i \in 1..Len(procs)
    /\ procs[i].pc = "write_forecast"
    /\ snapshots' = Append(snapshots,
                           [expected_days_left |-> procs[i].out[1].inv.estimated_qty,
                            predicted_state |-> procs[i].out[1].inv.state,
                            trigger |-> procs[i].kind,
                            trigger_log_id |-> procs[i].log_id])
    /\ procs' = [procs EXCEPT ![i].pc = "done"]
    /\ UNCHANGED <<pstate, inv, stepFrame>>

\* One of the dispatcher's three writes raises: the exception leaves
\* process_inventory_log, nothing undoes the writes already made.
write_fails(i) ==
    /\ i \in 1..Len(procs)
    /\ procs[i].kind = "dispatch"
    /\ procs[i].pc \in {"write_state", "write_inv", "write_forecast"}
    /\ procs' = [procs EXCEPT ![i].pc = "failed"]
    /\ UNCHANGED <<pstate, inv, snapshots, stepFrame>>

\* The caller dispatches the same log row again
retry(i) ==
    /\ i \in 1..Len(procs)
    /\ procs[i].pc = "failed"
    /\ procs[i].attempt < MaxAttempts
    /\ procs' = [procs EXCEPT ![i].pc = "load", ![i].ps = <<>>, ![i].iv = NoInv,
                              ![i].out = <<>>, ![i].attempt = @ + 1]
    /\ UNCHANGED <<pstate, inv, snapshots, stepFrame>>

\* Log rows the step-wise dispatch is run on: <<action, delta_state, note>>
StepRows ==
    { <<"PURCHASE", "FULL", "">>,
      <<"ADJUST", "", "less">>,
      <<"EMPTY", "EMPTY", "EMPTY: Finished">> }

\* The store after a first purchase at day 0 was dispatched
Stocked == process_inventory_log(<<>>, NoInv, Row("PURCHASE", "FULL", "", 0),
                                 "NONE", 0, <<>>)

\* Handlers the step-wise model also runs alone
SoloKinds == {"decay", "refresh", "habit_create", "habit_delete", "more", "less"}

InitSteps ==
    /\ now \in 1..MaxStepDay
    /\ habits \in {<<>>, <<Effects(NoneQ, Q(1, 2), QI(4))>>}
    /\ \E st \in {StoreOf(<<>>, NoInv, <<>>), StoreOf(Stocked.pstate, Stocked.inv, <<>>)} :
        /\ pstate = st.pstate
        /\ inv = st.inv
        /\ snapshots = st.snapshots
        /\ \/ \E body \in StepRows, other \in {"none", "decay", "refresh"} :
                procs = <<Proc("dispatch", Row(body[1], body[2], body[3], now), st)>>
                        \o IF other = "none" THEN <<>>
                           ELSE <<Proc(other, Row("", "", "", 0), st)>>
           \/ \E kind \in SoloKinds : procs = <<Proc(kind, Row("", "", "", 0), st)>>
    /\ log = <<>>
    /\ tasks = <<>>
    /\ ndispatch = [l \in 1..MaxLog |-> 0]
    /\ last_op = Op("init", FALSE, NoEvent, "NONE", FALSE)
    /\ snap = NoSnap
    /\ IdleMap /\ IdleReplay /\ IdleCycle /\ IdleSched /\ IdleLoop /\ IdleFn /\ IdleHabits

NextSteps ==
    \/ \E i \in 1..2 : load_state(i)
    \/ \E i \in 1..2 : read_inventory(i)
    \/ \E i \in 1..2 : upsert_predictor_state(i)
    \/ \E i \in 1..2 : upsert_inventory_days_estimate(i)
    \/ \E i \in 1..2 : insert_forecast(i)
    \/ \E i \in 1..2 : write_fails(i)
    \/ \E i \in 1..2 : retry(i)

SpecSteps == InitSteps /\ [][NextSteps]_vars

\* ------------------------------------------------ the background jobs' loops
\* Times are seconds since 00:00 UTC of the day the server started (day 0).
\* sched[w] is worker w's event loop: wake[job] is when the job's sleep ends,
\* free is when the loop finishes the body it is running (the bodies make
\* blocking calls, so the other job of the worker starts after it).
\* raised counts the iterations of the worker that raised.
\* ran[w][job][k] counts the run bodies of the job started on day k.
DaySeconds == 86400
Jobs == {"weekly", "state"}
\* Seconds a run body takes
RunDurations == {30, 90}
\* Time of day at which a worker starts
StartTimes == {43200, 86390}

Max2(a, b) == IF a >= b THEN a ELSE b

\* datetime.now(timezone.utc) when the job's loop next looks at the clock
StartOf(w, job) == Max2(sched[w].wake[job], sched[w].free)

Earliest(w, job) ==
    \A w2 \in 1..Len(sched), j2 \in Jobs : StartOf(w, job) <= StartOf(w2, j2)

current_hour(t) == (t % DaySeconds) \div 3600
current_minute(t) == ((t % DaySeconds) % 3600) \div 60
current_second(t) == t % 60

seconds_until_midnight(t) ==
    (24 - current_hour(t)) * 3600 - current_minute(t) * 60 - current_second(t)

Turn(w, job) ==
    /\ w \in 1..Len(sched)
    /\ Earliest(w, job)
    /\ StartOf(w, job) < (MaxSchedDay + 1) * DaySeconds

AtMidnight(t) == current_hour(t) = 0 /\ current_minute(t) = 0

Counted(w, job, t) ==
    [ran EXCEPT ![w][job][t \div DaySeconds] = @ + 1]

schedFrame == <<log, tasks, ndispatch, habits, snap, mapVars, replayVars, cobs,
                stepVars, loopVars, fnVars, habitVars>>

\* run_daily_weekly_updates, an iteration at 00:00: no product's first log
\* row is a week old, so every product is skipped; then sleep 24 hours
run_daily_weekly_updates(w, duration) ==
    w \in 1..Len(sched) /\
    \E t \in {StartOf(w, "weekly")} :
        /\ Turn(w, "weekly")
        /\ AtMidnight(t)
        /\ sched' = [sched EXCEPT ![w].wake["weekly"] = t + duration + 24 * 60 * 60,
                                  ![w].free = t + duration]
        /\ ran' = Counted(w, "weekly", t)
        /\ now' = t \div DaySeconds
        /\ last_op' = Op("weekly", FALSE, NoEvent, "NONE", FALSE)
        /\ UNCHANGED <<pstate, inv, schedFrame>>

\* run_daily_state_updates, an iteration at 00:00: the State-Decay run for
\* the user, then sleep 24 hours
run_daily_state_updates(w, duration) ==
    w \in 1..Len(sched) /\
    \E t \in {StartOf(w, "state")} :
      \E out \in {daily_state_update(pstate, inv, t \div DaySeconds, habits)} :
        /\ Turn(w, "state")
        /\ AtMidnight(t)
        /\ pstate' = out.pstate
        /\ inv' = out.inv
        /\ last_op' = out.op
        /\ sched' = [sched EXCEPT ![w].wake["state"] = t + duration + 24 * 60 * 60,
                                  ![w].free = t + duration]
        /\ ran' = Counted(w, "state", t)
        /\ now' = t \div DaySeconds
        /\ UNCHANGED schedFrame

\* Either job, an iteration at another time: sleep until the next midnight
sleep_until_midnight(w, job) ==
    w \in 1..Len(sched) /\
    \E t \in {StartOf(w, job)} :
        /\ Turn(w, job)
        /\ ~AtMidnight(t)
        /\ sched' = [sched EXCEPT ![w].wake[job] = t + seconds_until_midnight(t)]
        /\ now' = t \div DaySeconds
        /\ last_op' = Op("sleep", FALSE, NoEvent, "NONE", FALSE)
        /\ UNCHANGED <<pstate, inv, ran, schedFrame>>

\* Either job, an iteration at 00:00 whose select of the users raises: the
\* outer handler logs and sleeps one hour
run_raises(w, job, duration) ==
    w \in 1..Len(sched) /\
    \E t \in {StartOf(w, job)} :
        /\ Turn(w, job)
        /\ AtMidnight(t)
        /\ sched[w].raised < MaxRaises
        /\ sched' = [sched EXCEPT ![w].wake[job] = t + duration + 3600,
                                  ![w].free = t + duration,
                                  ![w].raised = @ + 1]
        /\ ran' = Counted(w, job, t)
        /\ now' = t \div DaySeconds
        /\ last_op' = Op("raised", FALSE, NoEvent, "NONE", FALSE)
        /\ UNCHANGED <<pstate, inv, schedFrame>>

\* lifespan: every worker process creates both tasks; they first sleep 5
\* and 10 seconds
Worker(start) ==
    [wake |-> [job \in Jobs |-> IF job = "weekly" THEN start + 5 ELSE start + 10],
     free |-> start, raised |-> 0]

InitSched ==
    /\ now = 0
    /\ pstate = Stocked.pstate
    /\ inv = Stocked.inv
    /\ habits = <<>>
    /\ \E s1 \in StartTimes :
         \/ sched = <<Worker(s1)>>
         \/ sched = <<Worker(s1), Worker(s1)>>
    /\ ran = [w \in 1..Len(sched) |-> [job \in Jobs |-> [k \in 0..MaxSchedDay |-> 0]]]
    /\ log = <<>>
    /\ tasks = <<>>
    /\ ndispatch = [l \in 1..MaxLog |-> 0]
    /\ last_op = Op("init", FALSE, NoEvent, "NONE", FALSE)
    /\ snap = NoSnap
    /\ IdleMap /\ IdleReplay /\ IdleCycle /\ IdleSteps /\ IdleLoop /\ IdleFn /\ IdleHabits

NextSched ==
    \/ \E w \in 1..2, d \in RunDurations : run_daily_weekly_updates(w, d)
    \/ \E w \in 1..2, d \in RunDurations : run_daily_state_updates(w, d)
    \/ \E w \in 1..2, job \in Jobs : sleep_until_midnight(w, job)
    \/ \E w \in 1..2, job \in Jobs, d \in RunDurations : run_raises(w, job, d)

SpecSched == InitSched /\ [][NextSched]_vars

\* --------------------------------- the State-Decay run over a user's products
\* prods[i] is product i: its predictor state and inventory row, the row
\* before the run, and what the run did with it ("pending", "done",
\* "raised"). cursor is the loop's position: the next product, Len + 1 after
\* the last one, 0 once an exception left the loop.

\* The store of a product k State-Decay runs (days 1..k) after its purchase
RECURSIVE Decayed(_)
Decayed(k) ==
    IF k = 0 THEN [pstate |-> Stocked.pstate, inv |-> Stocked.inv]
    ELSE LET prev == Decayed(k - 1)
             out == daily_state_update(prev.pstate, prev.inv, k, <<>>)
         IN  [pstate |-> out.pstate, inv |-> out.inv]

Product(st) ==
    [pstate |-> st.pstate, inv |-> st.inv, before |-> st.inv, outcome |-> "pending"]

loopFrame == <<log, tasks, ndispatch, habits, snap, mapVars, replayVars, cobs,
               stepVars, schedVars, fnVars, habitVars, pstate, inv, now>>

\* The loop body for the product at the cursor, nothing raising
decay_product ==
    /\ cursor \in 1..Len(prods)
    /\ \E out \in {daily_state_update(prods[cursor].pstate, prods[cursor].inv, now, habits)} :
         /\ prods' = [prods EXCEPT ![cursor].pstate = out.pstate,
                                   ![cursor].inv = out.inv,
                                   ![cursor].outcome = "done"]
         /\ last_op' = out.op
    /\ cursor' = cursor + 1
    /\ UNCHANGED loopFrame

\* A call of the loop body raises for the product at the cursor, when the
\* state is loaded or when the inventory row is upserted (the predictor state
\* is then already written). The handler's logger.error(...) names a logger
\* the module never defines: the NameError leaves the loop and the function.
decay_product_raises(at) ==
    /\ cursor \in 1..Len(prods)
    /\ \E out \in {daily_state_update(prods[cursor].pstate, prods[cursor].inv, now, habits)} :
         prods' = [prods EXCEPT
                     ![cursor].pstate = IF at = "upsert_inventory" THEN out.pstate ELSE @,
                     ![cursor].outcome = "raised"]
    /\ last_op' = Op("decay_raised", FALSE, NoEvent, "NONE", FALSE)
    /\ cursor' = 0
    /\ UNCHANGED loopFrame

\* After the last product: logger.info(...) raises the same NameError, which
\* the job's per-user handler logs
decay_loop_ends ==
    /\ cursor = Len(prods) + 1
    /\ cursor' = 0
    /\ last_op' = Op("decay_ended", FALSE, NoEvent, "NONE", FALSE)
    /\ UNCHANGED <<prods, loopFrame>>

ProductStores == { Decayed(k) : k \in {0, MaxLoopDay - 2, MaxLoopDay - 1, MaxLoopDay} }

InitLoop ==
    /\ now = MaxLoopDay + 1
    /\ pstate = <<>>
    /\ inv = NoInv
    /\ habits = <<>>
    /\ \E n \in 2..MaxProducts :
         prods \in [1..n -> {Product(st) : st \in ProductStores}]
    /\ cursor = 1
    /\ log = <<>>
    /\ tasks = <<>>
    /\ ndispatch = [l \in 1..MaxLog |-> 0]
    /\ last_op = Op("init", FALSE, NoEvent, "NONE", FALSE)
    /\ snap = NoSnap
    /\ IdleMap /\ IdleReplay /\ IdleCycle /\ IdleSteps /\ IdleSched /\ IdleFn /\ IdleHabits

NextLoop ==
    \/ decay_product
    \/ \E at \in {"load_state", "upsert_inventory"} : decay_product_raises(at)
    \/ decay_loop_ends

SpecLoop == InitLoop /\ [][NextLoop]_vars

\* ------------------------------------------------------ calls of pure functions
\* _sigmoid(c / 2.0) for a count c >= 1, rounded to three decimals
_sigmoid_half(c) ==
    CASE c = 1 -> Q(622, 1000)
      [] c = 2 -> Q(731, 1000)
      [] c = 3 -> Q(818, 1000)
      [] c = 4 -> Q(881, 1000)
      [] c = 5 -> Q(924, 1000)
      [] c = 6 -> Q(953, 1000)
      [] c = 7 -> Q(971, 1000)
      [] c = 8 -> Q(982, 1000)
      [] c = 9 -> Q(989, 1000)
      [] OTHER -> Q(993, 1000)

recency_tau_days == 21

\* math.exp(-days_since / recency_tau_days), rounded to two decimals, for
\* whole thirds of tau
exp_neg(days_since) ==
    CASE days_since = 0 -> Q(100, 100)
      [] days_since = recency_tau_days \div 3 -> Q(72, 100)
      [] days_since = 2 * (recency_tau_days \div 3) -> Q(51, 100)
      [] days_since = recency_tau_days -> Q(37, 100)
      [] OTHER -> Q(5, 100)

compute_confidence(state, now_) ==
    LET cycles_for_evidence ==
            IF state.n_completed_cycles > 0 THEN state.n_completed_cycles
            ELSE state.n_strong_updates
        evidence == IF cycles_for_evidence = 0 THEN Q(3, 10)
                    ELSE _sigmoid_half(cycles_for_evidence)
        stability == _clamp(QSub(QI(1), QDiv(state.cycle_mad_days,
                                             QMax(state.cycle_mean_days, QI(1)))),
                            Q(2, 10), QI(1))
        days_since == Abs(now_ - state.last_update_at)
        recency == QMax(Q(1, 10), exp_neg(days_since))
        conf == QAdd(Q(2, 10), QMul(Q(8, 10), QMul(evidence, QMul(stability, recency))))
    IN  _clamp(conf, QI(0), QI(1))

\* States compute_confidence is called on: the fields it reads
ConfidenceStates ==
    { [init_state_from_category(0) EXCEPT
          !.n_completed_cycles = nc, !.n_strong_updates = ns,
          !.cycle_mad_days = mad, !.cycle_mean_days = mean] :
      nc \in 0..MaxConfCycles, ns \in 0..MaxConfCycles,
      mad \in {Q(1, 2), QI(2), QI(10)}, mean \in {QI(1), QI(4), QI(8)} }

ConfidenceDays == {0, recency_tau_days \div 3, recency_tau_days, 3 * recency_tau_days}

\* Arguments of derive_state
DaysLeftValues ==
    { QI(-1), QI(0), Q(1, 8), Q(1, 4), QI(1), QI(2), QI(3), QI(5), QI(7), QI(8) }
MeanValues == { QI(1), Q(7, 2), QI(7) }

\* A habits row
HabitRow(status, start_date, end_date, effects) ==
    [status |-> status, start_date |-> start_date, end_date |-> end_date,
     effects |-> effects]

HabitRows ==
    { HabitRow(st, sd, ed, e) :
        st \in {"ACTIVE", "INACTIVE"}, sd \in {None, 0, MaxHabitDay},
        ed \in {None, 0, MaxHabitDay}, e \in EffectsSet }

\* The rows the repository's query selects. SupabasePantryRepository filters
\* on status = ACTIVE; PantryRepository (Postgres) also on the dates.
Selected(row, repo, now_) ==
    /\ row.status = "ACTIVE"
    /\ repo = "postgres" =>
          /\ (row.start_date = None \/ row.start_date <= now_)
          /\ (row.end_date = None \/ row.end_date >= now_)

RECURSIVE SelectEffects(_, _, _)
SelectEffects(rows, repo, now_) ==
    IF rows = <<>> THEN <<>>
    ELSE (IF Selected(Head(rows), repo, now_) THEN <<Head(rows).effects>> ELSE <<>>)
         \o SelectEffects(Tail(rows), repo, now_)

\* SupabasePantryRepository.get_active_habit_multiplier with the store's
\* answer: without the failure branch
resolve_multiplier_unguarded(rows, store_ok, now_) ==
    get_active_habit_multiplier(SelectEffects(rows, "supabase", now_))

\* SupabasePantryRepository.get_active_habit_multiplier with the store's
\* answer: when the select raises, the handler prints a warning and
\* returns 1.0
resolve_multiplier(rows, store_ok, now_) ==
    IF ~store_ok THEN QI(1)
    ELSE get_active_habit_multiplier(SelectEffects(rows, "supabase", now_))

fnFrame == <<mainVars, mapVars, replayVars, cobs, stepVars, schedVars, loopVars,
             habitVars>>

\* One call each of compute_confidence on state and on the same state with
\* n_completed_cycles = more
call_compute_confidence ==
    /\ args # <<>> /\ args[1].fn = "compute_confidence" /\ result = <<>>
    /\ result' = << compute_confidence(args[1].state, args[1].now),
                    compute_confidence([args[1].state EXCEPT
                                           !.n_completed_cycles = args[1].more],
                                       args[1].now) >>
    /\ UNCHANGED <<args, fnFrame>>

\* One call each of derive_state on days_left and on more, the same mean
call_derive_state ==
    /\ args # <<>> /\ args[1].fn = "derive_state" /\ result = <<>>
    /\ result' = << derive_state(args[1].days_left, args[1].mean_days),
                    derive_state(args[1].more, args[1].mean_days) >>
    /\ UNCHANGED <<args, fnFrame>>

\* One call of the repository's get_active_habit_multiplier
call_get_active_habit_multiplier ==
    /\ args # <<>> /\ args[1].fn = "get_active_habit_multiplier" /\ result = <<>>
    /\ result' = << get_active_habit_multiplier(
                        SelectEffects(args[1].rows, args[1].repo, args[1].now)) >>
    /\ UNCHANGED <<args, fnFrame>>

\* The multiplier is resolved and handed to predict, as the dispatcher does
\* for a non-purchase event
call_predict ==
    /\ args # <<>> /\ args[1].fn = "predict" /\ result = <<>>
    /\ \E mult \in {resolve_multiplier(args[1].rows, args[1].store_ok, args[1].now)} :
         result' = << mult, predict(args[1].state, args[1].now, mult, NoneQ) >>
    /\ UNCHANGED <<args, fnFrame>>

InitFn ==
    /\ now = 0
    /\ pstate = <<>>
    /\ inv = NoInv
    /\ habits = <<>>
    /\ log = <<>>
    /\ tasks = <<>>
    /\ ndispatch = [l \in 1..MaxLog |-> 0]
    /\ last_op = Op("init", FALSE, NoEvent, "NONE", FALSE)
    /\ snap = NoSnap
    /\ IdleMap /\ IdleReplay /\ IdleCycle /\ IdleSteps /\ IdleSched /\ IdleLoop
    /\ IdleHabits
    /\ result = <<>>
    /\ \/ \E st \in ConfidenceStates, t \in ConfidenceDays, n \in 0..MaxConfCycles :
            /\ n >= st.n_completed_cycles
            /\ args = <<[fn |-> "compute_confidence", state |-> st, now |-> t, more |-> n]>>
       \/ \E d1 \in DaysLeftValues, d2 \in DaysLeftValues, m \in MeanValues :
            /\ QLe(d1, d2)
            /\ args = <<[fn |-> "derive_state", days_left |-> d1, more |-> d2,
                         mean_days |-> m]>>
       \/ \E r1 \in HabitRows, r2 \in HabitRows, n \in 1..2,
             repo \in {"supabase", "postgres"} :
            /\ n = 1 => r2 = r1
            /\ args = <<[fn |-> "get_active_habit_multiplier", repo |-> repo,
                         rows |-> IF n = 1 THEN <<r1>> ELSE <<r1, r2>>,
                         now |-> MaxHabitDay - 1]>>
       \/ \E st \in {init_state_from_category(0), Stocked.pstate[1]},
             rows \in {<<>>} \cup {<<r>> : r \in HabitRows}, ok \in BOOLEAN :
            args = <<[fn |-> "predict", state |-> st, rows |-> rows, store_ok |-> ok,
                      now |-> MaxHabitDay - 1]>>

NextFn ==
    \/ call_compute_confidence
    \/ call_derive_state
    \/ call_get_active_habit_multiplier
    \/ call_predict

SpecFn == InitFn /\ [][NextFn]_vars

\* ------------------------------------------------ one product over many days
\* A product purchased on day 0 (Stocked); the State-Decay job runs once at
\* every midnight, the user reports the product empty and buys it again.
\* cobs holds the day of the EMPTY report of the current cycle.
InitDays ==
    /\ now = 0
    /\ pstate = Stocked.pstate
    /\ inv = Stocked.inv
    /\ log = <<>>
    /\ tasks = <<>>
    /\ ndispatch = [l \in 1..MaxLog |-> 0]
    /\ habits = <<>>
    /\ last_op = Op("init", FALSE, NoEvent, "NONE", FALSE)
    /\ snap = NoSnap
    /\ IdleMap /\ IdleReplay /\ IdleCycle /\ IdleExt

daysFrame == <<log, tasks, ndispatch, habits, snap, mapVars, replayVars, extVars>>

\* Midnight passes and the State-Decay job runs
midnight_state_update ==
    /\ now < MaxRunDay
    /\ now' = now + 1
    /\ \E out \in {daily_state_update(pstate, inv, now + 1, habits)} :
         /\ pstate' = out.pstate
         /\ inv' = out.inv
         /\ last_op' = out.op
    /\ UNCHANGED <<cobs, daysFrame>>

\* The user reports the product empty (an EMPTY row, dispatched)
report_empty ==
    /\ cobs = <<>>
    /\ now > pstate[1].cycle_started_at
    /\ \E out \in {process_inventory_log(pstate, inv,
                         Row("EMPTY", "EMPTY", "EMPTY: Finished", now), "NONE", now, habits)} :
         /\ pstate' = out.pstate
         /\ inv' = out.inv
         /\ last_op' = out.op
    /\ cobs' = <<now>>
    /\ UNCHANGED <<now, daysFrame>>

\* The user buys the product again after the report (a PURCHASE row, dispatched)
purchase_again ==
    /\ cobs # <<>>
    /\ pstate[1].n_completed_cycles < MaxCycles
    /\ \E out \in {process_inventory_log(pstate, inv,
                         Row("PURCHASE", "FULL", "", now), inv.state, now, habits)} :
         /\ pstate' = out.pstate
         /\ inv' = out.inv
         /\ last_op' = out.op
    /\ cobs' = <<>>
    /\ UNCHANGED <<now, daysFrame>>

NextDays ==
    \/ midnight_state_update
    \/ report_empty
    \/ purchase_again

SpecDays == InitDays /\ [][NextDays]_vars

\* ------------------------------------------------- habits of any status
\* The habits endpoints on a stocked product. A row of hrows is a habits row:
\* its status ("DELETED" once the row is removed), its effects, and divided,
\* the number of times the refresh divided its multiplier into
\* cycle_mean_days minus the number of times it multiplied it back.
HabitStatus == {"ACTIVE", "INACTIVE", "EXPIRED"}

habitFrame == <<now, log, tasks, ndispatch, snap, mapVars, replayVars, cobs,
                stepVars, schedVars, loopVars, fnVars>>

\* Effects of the rows get_active_habit_multiplier selects
ActiveEffects(rows) ==
    LET keep(i) == rows[i].status = "ACTIVE"
        RECURSIVE from(_)
        from(i) == IF i > Len(rows) THEN <<>>
                   ELSE IF keep(i) THEN <<rows[i].effects>> \o from(i + 1)
                   ELSE from(i + 1)
    IN  from(1)

InitHabits ==
    /\ now = 0
    /\ pstate = Stocked.pstate
    /\ inv = Stocked.inv
    /\ log = <<>>
    /\ tasks = <<>>
    /\ ndispatch = [l \in 1..MaxLog |-> 0]
    /\ habits = <<>>
    /\ last_op = Op("init", FALSE, NoEvent, "NONE", FALSE)
    /\ snap = NoSnap
    /\ IdleMap /\ IdleReplay /\ IdleCycle
    /\ IdleSteps /\ IdleSched /\ IdleLoop /\ IdleFn
    /\ hrows = <<>>

\* POST /habits with any status: the refresh runs for an ACTIVE habit only
create_habit_row(status, effects) ==
    /\ Len(hrows) < MaxHabitRows
    /\ IF status = "ACTIVE" /\ Affected(effects)
       THEN \E out \in {refresh_products_affected_by_habit(pstate, effects, FALSE, now)} :
              /\ pstate' = out.pstate
              /\ inv' = out.inv
              /\ last_op' = out.op
              /\ hrows' = Append(hrows, [status |-> status, effects |-> effects,
                                          created |-> status, divided |-> 1])
       ELSE /\ hrows' = Append(hrows, [status |-> status, effects |-> effects,
                                        created |-> status, divided |-> 0])
            /\ last_op' = Op("habit_insert", FALSE, NoEvent, "NONE", FALSE)
            /\ UNCHANGED <<pstate, inv>>
    /\ habits' = ActiveEffects(hrows')
    /\ UNCHANGED habitFrame

\* PUT /habits/{habit_id} with a status: the row is updated, nothing else
update_habit(i, status) ==
    /\ i \in 1..Len(hrows)
    /\ hrows[i].status \notin {"DELETED", status}
    /\ hrows' = [hrows EXCEPT ![i].status = status]
    /\ habits' = ActiveEffects(hrows')
    /\ last_op' = Op("habit_update", FALSE, NoEvent, "NONE", FALSE)
    /\ UNCHANGED <<pstate, inv, habitFrame>>

\* DELETE /habits/{habit_id}: the row is removed and the refresh reverts its
\* effects
delete_habit_row(i) ==
    /\ i \in 1..Len(hrows)
    /\ hrows[i].status # "DELETED"
    /\ IF Affected(hrows[i].effects)
       THEN \E out \in {refresh_products_affected_by_habit(pstate, hrows[i].effects,
                                                           TRUE, now)} :
              /\ pstate' = out.pstate
              /\ inv' = out.inv
              /\ last_op' = out.op
              /\ hrows' = [hrows EXCEPT ![i].status = "DELETED",
                                         ![i].divided = @ - 1]
       ELSE /\ hrows' = [hrows EXCEPT ![i].status = "DELETED"]
            /\ last_op' = Op("habit_delete", FALSE, NoEvent, "NONE", FALSE)
            /\ UNCHANGED <<pstate, inv>>
    /\ habits' = ActiveEffects(hrows')
    /\ UNCHANGED habitFrame

NextHabits ==
    \/ \E st \in HabitStatus, e \in EffectsSet : create_habit_row(st, e)
    \/ \E i \in 1..MaxHabitRows, st \in HabitStatus : update_habit(i, st)
    \/ \E i \in 1..MaxHabitRows : delete_habit_row(i)

SpecHabits == InitHabits /\ [][NextHabits]_vars

\* ------------------------------------------------ sequences of events
\* apply_purchase and apply_feedback applied to a fresh state, a stocked one
\* or one reported empty a day after its purchase, one event after another. result holds the state, args the events applied
\* so far, now the time of the last event.
WasteNotes ==
    { "WASTED: Expired", "WASTED: Bad taste", "WASTED: Ran out", "WASTED: Other" }

Event(kind, note, current_state, ts) ==
    [kind |-> kind, note |-> note, current_state |-> current_state, ts |-> ts]

eventFrame == <<pstate, inv, log, tasks, ndispatch, habits, last_op, snap,
                mapVars, replayVars, cobs, stepVars, schedVars, loopVars, habitVars>>

\* The stocked product reported empty on day 1
ReportedEmpty == apply_feedback(Stocked.pstate[1], 1, "EMPTY", "EMPTY: Finished")

InitEvents ==
    /\ \/ now = 0 /\ result \in { <<init_state_from_category(0)>>, <<Stocked.pstate[1]>> }
       \/ now = 1 /\ result = <<ReportedEmpty>>
    /\ pstate = <<>>
    /\ inv = NoInv
    /\ habits = <<>>
    /\ log = <<>>
    /\ tasks = <<>>
    /\ ndispatch = [l \in 1..MaxLog |-> 0]
    /\ last_op = Op("init", FALSE, NoEvent, "NONE", FALSE)
    /\ snap = NoSnap
    /\ IdleMap /\ IdleReplay /\ IdleCycle /\ IdleSteps /\ IdleSched /\ IdleLoop
    /\ IdleHabits
    /\ args = <<>>

\* state = apply_purchase(state, purchase_ev, cfg, current_state)
call_apply_purchase(gap, current_state) ==
    /\ Len(args) < MaxEvents
    /\ now' = now + gap
    /\ result' = <<apply_purchase(result[1], now + gap, current_state)>>
    /\ args' = Append(args, Event("PURCHASE", "", current_state, now + gap))
    /\ UNCHANGED eventFrame

\* state = apply_feedback(state, feedback_ev, cfg)
call_apply_feedback(gap, kind, note) ==
    /\ Len(args) < MaxEvents
    /\ kind = "WASTED" <=> note \in WasteNotes
    /\ now' = now + gap
    /\ result' = <<apply_feedback(result[1], now + gap, kind, note)>>
    /\ args' = Append(args, Event(kind, note, "NONE", now + gap))
    /\ UNCHANGED eventFrame

NextEvents ==
    \/ \E gap \in 1..MaxGap, cs \in {"NONE", "LOW", "FULL", "EMPTY"} :
          call_apply_purchase(gap, cs)
    \/ \E gap \in 1..MaxGap, kind \in {"EMPTY", "MORE", "LESS", "EXACT", "WASTED"},
          note \in WasteNotes \cup {""} : call_apply_feedback(gap, kind, note)

SpecEvents == InitEvents /\ [][NextEvents]_vars

\* ------------------------------------- the habit refresh over the products
\* prods[i] is product i of the catalogue: its category, whether the user's
\* inventory holds it, its predictor state and inventory row, and what the
\* refresh did with it ("untouched", "pending", "skipped", "done", "raised",
\* "abandoned"). args holds the habit's effects: global_multiplier, the
\* products and the categories its multipliers name, and is_deletion.
\* cursor is 1 while the loop runs and 0 once the function returned.
Categories == {1, 2}

HabitEffects(gm, pm, cm, is_deletion) ==
    [gm |-> gm, pm |-> pm, cm |-> cm, is_deletion |-> is_deletion]

\* The effects as _extract_multiplier_from_effects reads them for product i
EffectsFor(i) ==
    Effects(args[1].gm,
            IF i \in args[1].pm THEN Q(1, 2) ELSE NoneQ,
            IF prods[i].category \in args[1].cm THEN QI(4) ELSE NoneQ)

\* get_user_inventory_products: the products of the user's inventory
user_product_ids == { i \in 1..Len(prods) : prods[i].in_inventory }

\* affected_product_ids as the function collects them
affected_product_ids(effects, catalogue) ==
    effects.pm \cup
    { i \in 1..Len(catalogue) :
        /\ catalogue[i].in_inventory
        /\ effects.gm # NoneQ \/ catalogue[i].category \in effects.cm }

CatalogueProduct(category, in_inventory) ==
    [ category |-> category, in_inventory |-> in_inventory,
      pstate |-> Stocked.pstate,
      inv |-> IF in_inventory THEN Stocked.inv ELSE NoInv,
      outcome |-> "untouched" ]

\* The exception leaves the loop
after_error_leaving(rest) == {}

\* The products the loop still visits after the body raised for one of
\* them: except Exception logs through the logging module and continues
after_error(rest) == rest

refreshFrame == <<pstate, inv, log, tasks, ndispatch, habits, snap, now, args, result,
                  mapVars, replayVars, cobs, stepVars, schedVars, habitVars>>

InitRefresh ==
    /\ now = 1
    /\ pstate = <<>>
    /\ inv = NoInv
    /\ habits = <<>>
    /\ log = <<>>
    /\ tasks = <<>>
    /\ ndispatch = [l \in 1..MaxLog |-> 0]
    /\ last_op = Op("init", FALSE, NoEvent, "NONE", FALSE)
    /\ snap = NoSnap
    /\ IdleMap /\ IdleReplay /\ IdleCycle /\ IdleSteps /\ IdleSched /\ IdleHabits
    /\ result = <<>>
    /\ \E gm \in {NoneQ, Q(1, 20)}, pm \in {{}, {1}, {2, 3}}, cm \in {{}, {1}},
          is_deletion \in BOOLEAN :
          /\ gm # NoneQ \/ pm # {} \/ cm # {}
          /\ args = <<HabitEffects(gm, pm, cm, is_deletion)>>
    /\ \E catalogue \in [1..MaxCatalogue ->
                           {CatalogueProduct(c, b) : c \in Categories, b \in BOOLEAN}] :
          prods = [i \in 1..MaxCatalogue |->
                     IF i \in affected_product_ids(args[1], catalogue)
                     THEN [catalogue[i] EXCEPT !.outcome = "pending"]
                     ELSE catalogue[i]]
    /\ cursor = 1

\* if product_id not in user_product_ids: continue
skip_product(i) ==
    /\ cursor = 1
    /\ i \in 1..Len(prods)
    /\ prods[i].outcome = "pending"
    /\ i \notin user_product_ids
    /\ prods' = [prods EXCEPT ![i].outcome = "skipped"]
    /\ last_op' = Op("habit_skipped", FALSE, NoEvent, "NONE", FALSE)
    /\ UNCHANGED <<cursor, refreshFrame>>

\* The loop body for product i, nothing raising
refresh_product(i) ==
    /\ cursor = 1
    /\ i \in 1..Len(prods)
    /\ prods[i].outcome = "pending"
    /\ i \in user_product_ids
    /\ \E out \in {refresh_products_affected_by_habit(prods[i].pstate, EffectsFor(i),
                                                       args[1].is_deletion, now)} :
         /\ prods' = [prods EXCEPT ![i].pstate = out.pstate,
                                   ![i].inv = out.inv,
                                   ![i].outcome = "done"]
         /\ last_op' = out.op
    /\ UNCHANGED <<cursor, refreshFrame>>

\* The loop body raises for product i, when the state is loaded or when the
\* inventory row is upserted (the predictor state is then already written)
refresh_product_raises(i, at) ==
    /\ cursor = 1
    /\ i \in 1..Len(prods)
    /\ prods[i].outcome = "pending"
    /\ i \in user_product_ids
    /\ \E out \in {refresh_products_affected_by_habit(prods[i].pstate, EffectsFor(i),
                                                       args[1].is_deletion, now)},
          rest \in {{ j \in 1..Len(prods) : j # i /\ prods[j].outcome = "pending" }} :
         prods' = [j \in 1..Len(prods) |->
                     IF j = i
                     THEN [prods[i] EXCEPT
                             !.pstate = IF at = "upsert_inventory" THEN out.pstate ELSE @,
                             !.outcome = "raised"]
                     ELSE IF j \in rest \ after_error(rest)
                     THEN [prods[j] EXCEPT !.outcome = "abandoned"]
                     ELSE prods[j]]
    /\ last_op' = Op("habit_raised", FALSE, NoEvent, "NONE", FALSE)
    /\ UNCHANGED <<cursor, refreshFrame>>

\* The loop is through: the function returns
refresh_returns ==
    /\ cursor = 1
    /\ \A i \in 1..Len(prods) : prods[i].outcome # "pending"
    /\ cursor' = 0
    /\ last_op' = Op("habit_returned", FALSE, NoEvent, "NONE", FALSE)
    /\ UNCHANGED <<prods, refreshFrame>>

NextRefresh ==
    \/ \E i \in 1..MaxCatalogue : skip_product(i)
    \/ \E i \in 1..MaxCatalogue : refresh_product(i)
    \/ \E i \in 1..MaxCatalogue, at \in {"load_state", "upsert_inventory"} :
          refresh_product_raises(i, at)
    \/ refresh_returns

SpecRefresh == InitRefresh /\ [][NextRefresh]_vars

\* ------------------------------------------- shutdown of the daily jobs
\* sched[job] is the job's asyncio task: at is where its coroutine is
\* suspended ("created" before its first step, "sleep_startup",
\* "sleep_until_midnight", "sleep_after_run" and "sleep_after_error" for the
\* four asyncio.sleep calls, "cancelled" once CancelledError left the
\* coroutine), must_cancel is set by Task.cancel() until the error is thrown
\* into the coroutine, left_at is the sleep the error was thrown at,
\* iterations counts the loop's iterations. result[1] is lifespan's position:
\* "serving", "await_weekly", "await_state", "stopped".
InTry == {"sleep_until_midnight", "sleep_after_run"}
Sleeps == InTry \cup {"sleep_startup", "sleep_after_error"}

\* except Exception: asyncio.CancelledError derives from BaseException, the
\* errors of the run bodies from Exception
except_Exception_all(cls) == TRUE

except_Exception(cls) == cls # "CancelledError"

JobTask == [at |-> "created", must_cancel |-> FALSE, left_at |-> "", iterations |-> 0]

shutdownFrame == <<now, pstate, inv, log, tasks, ndispatch, habits, last_op, snap,
                   mapVars, replayVars, cobs, stepVars, ran, loopVars, args, habitVars>>

InitShutdown ==
    /\ now = 0
    /\ pstate = <<>>
    /\ inv = NoInv
    /\ habits = <<>>
    /\ log = <<>>
    /\ tasks = <<>>
    /\ ndispatch = [l \in 1..MaxLog |-> 0]
    /\ last_op = Op("init", FALSE, NoEvent, "NONE", FALSE)
    /\ snap = NoSnap
    /\ IdleMap /\ IdleReplay /\ IdleCycle /\ IdleSteps /\ IdleLoop /\ IdleHabits
    /\ ran = <<>>
    /\ args = <<>>
    /\ sched = [job \in Jobs |-> JobTask]
    /\ result = <<"serving">>

\* The task's first step: the imports, then await asyncio.sleep(5 or 10)
task_starts(job) ==
    /\ sched[job].at = "created"
    /\ ~sched[job].must_cancel
    /\ sched' = [sched EXCEPT ![job].at = "sleep_startup"]
    /\ UNCHANGED <<result, shutdownFrame>>

\* A sleep ends and the loop runs one iteration up to its next sleep: not
\* 00:00, a run (or no users), or an exception in the try body
job_iteration(job, next_sleep) ==
    /\ sched[job].at \in Sleeps
    /\ ~sched[job].must_cancel
    /\ sched[job].iterations < MaxIterations
    /\ next_sleep \in InTry \/ except_Exception("APIError")
    /\ sched' = [sched EXCEPT ![job].at = next_sleep, ![job].iterations = @ + 1]
    /\ UNCHANGED <<result, shutdownFrame>>

\* The event loop throws CancelledError into the coroutine at the await it
\* is suspended on (or ends a task that never started)
cancel_delivered(job) ==
    /\ sched[job].must_cancel
    /\ sched[job].at \in Sleeps \cup {"created"}
    /\ sched' = [sched EXCEPT
                   ![job].must_cancel = FALSE,
                   ![job].left_at = sched[job].at,
                   ![job].at = IF sched[job].at \in InTry /\ except_Exception("CancelledError")
                               THEN "sleep_after_error"
                               ELSE "cancelled"]
    /\ UNCHANGED <<result, shutdownFrame>>

\* lifespan after the yield: weekly_task.cancel(); state_task.cancel()
lifespan_shutdown ==
    /\ result[1] = "serving"
    /\ sched' = [job \in Jobs |->
                   [sched[job] EXCEPT !.must_cancel = sched[job].at # "cancelled"]]
    /\ result' = <<"await_weekly">>
    /\ UNCHANGED shutdownFrame

\* await weekly_task / await state_task returns with CancelledError, which
\* lifespan catches and logs
lifespan_await(job) ==
    /\ result[1] = (IF job = "weekly" THEN "await_weekly" ELSE "await_state")
    /\ sched[job].at = "cancelled"
    /\ result' = <<IF job = "weekly" THEN "await_state" ELSE "stopped">>
    /\ UNCHANGED <<sched, shutdownFrame>>

NextShutdown ==
    \/ \E job \in Jobs : task_starts(job)
    \/ \E job \in Jobs, next_sleep \in Sleeps \ {"sleep_startup"} :
          job_iteration(job, next_sleep)
    \/ \E job \in Jobs : cancel_delivered(job)
    \/ lifespan_shutdown
    \/ \E job \in Jobs : lifespan_await(job)

\* The event loop runs every callback that is ready: a cancelled task's
\* wake-up, a new task's first step, lifespan's continuation. Sleeps may last
\* and the server may never be shut down.
SpecShutdown ==
    /\ InitShutdown /\ [][NextShutdown]_vars
    /\ \A job \in Jobs : WF_vars(cancel_delivered(job))
    /\ \A job \in Jobs : WF_vars(task_starts(job))
    /\ \A job \in Jobs : WF_vars(lifespan_await(job))

\* ------------------------------------------------------------------ claims
\* C1: in every persisted predictor state, whatever purchases, feedback,
\* habit refreshes and decay runs produced it, min_cycle_days <=
\* cycle_mean_days <= max_cycle_days and cycle_mad_days >= 0.1.
C1_MeanMadBounds ==
    \A i \in 1..Len(pstate) :
        /\ QLe(min_cycle_days, pstate[i].cycle_mean_days)
        /\ QLe(pstate[i].cycle_mean_days, max_cycle_days)
        /\ QLe(mad_floor, pstate[i].cycle_mad_days)

\* A habit creation whose division pushed the mean onto max_cycle_days
C1_Witness ==
    /\ last_op.op = "habit_create"
    /\ Len(pstate) = 1
    /\ pstate[1].cycle_mean_days = max_cycle_days
    /\ pstate[1].n_total_updates > 0

\* The predictor state a step starts from and the one it leaves
Pre == _load_or_init_state(pstate, now)
Post == pstate'[1]

PurchaseWhileStocked ==
    /\ last_op'.op = "dispatch"
    /\ last_op'.purchase
    /\ last_op'.current_state \in {"FULL", "MEDIUM"}
    /\ Pre.empty_at = None

CensoredEffect ==
    /\ Post.cycle_mean_days = Pre.cycle_mean_days
    /\ Post.cycle_mad_days = Pre.cycle_mad_days
    /\ Post.censored_cycles = Pre.censored_cycles + 1
    /\ Post.n_completed_cycles = Pre.n_completed_cycles

\* C3 as stated: a Purchase dispatched on any state with empty_at = null
\* while the inventory state is FULL or MEDIUM leaves mean and MAD unchanged,
\* adds one to censored_cycles and leaves n_completed_cycles unchanged.
C3_Original == [][PurchaseWhileStocked => CensoredEffect]_vars

\* C3 amended: the same, for states that also have an active cycle
\* (cycle_started_at not null).
C3_CensoredPurchase ==
    [][(PurchaseWhileStocked /\ Pre.cycle_started_at # None) => CensoredEffect]_vars

\* A purchase on a stocked product with an active cycle has been dispatched
C3_Witness ==
    /\ last_op.op = "dispatch" /\ last_op.purchase
    /\ last_op.current_state \in {"FULL", "MEDIUM"}
    /\ Len(pstate) = 1
    /\ pstate[1].censored_cycles = 1
    /\ pstate[1].n_completed_cycles = 0

\* A habit was created and then deleted, with no step in between
CreatedThenDeleted == last_op.op = "habit_delete" /\ snap.set /\ ~snap.saturated

HabitRestored ==
    /\ pstate[1].cycle_mean_days = snap.mean
    /\ pstate[1].last_pred_days_left = snap.last_pred

\* C5 as stated: for any effects and any product state, the creation refresh
\* followed by the deletion refresh leaves cycle_mean_days and
\* last_pred_days_left at their starting values when the clamp does not
\* saturate.
C5_Original == CreatedThenDeleted => HabitRestored

\* C5 amended: the same, for product states that start with a last prediction
\* (last_pred_days_left not null).
C5_HabitSymmetry == (CreatedThenDeleted /\ snap.last_pred # NoneQ) => HabitRestored

\* A create-then-delete from a state with a positive last prediction
C5_Witness ==
    /\ CreatedThenDeleted
    /\ snap.last_pred # NoneQ
    /\ QLt(QI(0), snap.last_pred)
    /\ snap.mean # prior_mean_days

\* The days_left a decay run starts from, and what one run does to it
DecayRun == last_op'.op = "decay"
DecayedBy1 ==
    inv'.estimated_qty = QMax(QSub(DecayBase(pstate, inv, now, habits), QI(1)), QI(0))
EmptyUntouched == inv' = inv /\ pstate' = pstate

\* C6 as stated: a decay run takes a non-EMPTY product's days_left d to
\* max(d - 1, 0), leaves an EMPTY product untouched, and sets the coarse
\* state to EMPTY if and only if the new days_left <= 0.
C6_Original ==
    [][DecayRun =>
         IF inv.state = "EMPTY" THEN EmptyUntouched
         ELSE /\ DecayedBy1
              /\ (inv'.state = "EMPTY") <=> QLe(inv'.estimated_qty, QI(0))]_vars

\* C6 amended: the coarse state becomes EMPTY if and only if the new
\* days_left is <= 0 or below 2% of cycle_mean_days.
C6_Decay ==
    [][DecayRun =>
         IF inv.state = "EMPTY" THEN EmptyUntouched
         ELSE /\ DecayedBy1
              /\ (inv'.state = "EMPTY") <=>
                    \/ QLe(inv'.estimated_qty, QI(0))
                    \/ QLt(inv'.estimated_qty,
                           QMul(Q(2, 100), Post.cycle_mean_days))]_vars

\* A decay run left a positive days_left on a product it moved to EMPTY
C6_Witness ==
    /\ last_op.op = "decay"
    /\ last_op.current_state # "EMPTY"
    /\ inv.state = "EMPTY"
    /\ QLt(QI(0), inv.estimated_qty)

\* C7: a row written by the dispatcher, refresh_user or a habit refresh for
\* a state with cycle_started_at = null, with no days_left handed in as an
\* override, has days_left = 0 and state EMPTY.
C7_NoCycleIsEmpty ==
    ( /\ last_op.op \in {"dispatch", "refresh", "habit_create", "habit_delete"}
      /\ ~last_op.base
      /\ pstate[1].cycle_started_at = None )
    => (inv.estimated_qty = QI(0) /\ inv.state = "EMPTY")

\* C10: over the call paths that reach the dispatcher, no log_id is processed
\* by process_inventory_log more than once.
C10_AtMostOnce == \A l \in 1..MaxLog : ndispatch[l] <= 1

\* C8: a row whose action is PURCHASE, RESET or REPURCHASE is classified as
\* a Purchase event at occurred_at and no Feedback event, whatever its note
\* and delta_state.
C8_PurchaseActions ==
    (mev # <<>> /\ mrow.action \in {"PURCHASE", "RESET", "REPURCHASE"})
    => /\ mev[1].purchase
       /\ mev[1].feedback = NoEvent
       /\ mev[1].ts = mrow.occurred_at

\* C9: a row with action TRASH is classified as Feedback(WASTED) and a row
\* with action EMPTY as Feedback(EMPTY), whatever its note and delta_state.
C9_WasteAndEmptyActions ==
    mev # <<>>
    => /\ mrow.action = "TRASH" => mev[1].feedback = "WASTED"
       /\ mrow.action = "EMPTY" => mev[1].feedback = "EMPTY"

RECURSIVE SumSeq(_)
SumSeq(q) == IF Len(q) = 0 THEN 0 ELSE Head(q) + SumSeq(Tail(q))

\* k >= 1 cycles have been closed by a purchase, each within the bounds
ChainClosed ==
    /\ pstate # <<>>
    /\ pstate[1].empty_at = None
    /\ Len(cobs) >= 1
    /\ \A i \in 1..Len(cobs) :
          QLe(min_cycle_days, QI(cobs[i])) /\ QLe(QI(cobs[i]), max_cycle_days)

\* C2: on a fresh state, after k Purchase -> EMPTY -> Purchase sequences with
\* observed cycles o1..ok inside [min_cycle_days, max_cycle_days],
\* cycle_mean_days is the arithmetic mean of o1..ok and n_completed_cycles
\* is k.
C2_CycleAverage ==
    ChainClosed =>
        /\ pstate[1].cycle_mean_days = Q(SumSeq(cobs), Len(cobs))
        /\ pstate[1].n_completed_cycles = Len(cobs)

\* Three closed cycles of different lengths
C2_Witness ==
    /\ ChainClosed
    /\ cobs = <<1, 4, 2>>

Final(run) ==
    << run.pstate[1].cycle_mean_days, run.pstate[1].cycle_mad_days,
       run.pstate[1].n_completed_cycles, run.pstate[1].censored_cycles,
       run.pstate[1].waste_events, run.pstate[1].empty_at >>

\* C4: two replays of the same ordered log on a fresh state end with the
\* same (cycle_mean_days, cycle_mad_days, n_completed_cycles,
\* censored_cycles, waste_events, empty_at), whatever the wall-clock times
\* of their dispatches.
C4_ReplayDeterminism ==
    (runs # <<>> /\ runs[1].pos = Len(rlog) /\ runs[2].pos = Len(rlog))
    => Final(runs[1]) = Final(runs[2])

\* The store after handler p then handler q ran one after the other from b
Serial(p, q, b) ==
    LET o1 == Handler(p, b.pstate, b.inv)
        o2 == Handler(q, o1.pstate, o1.inv)
    IN  <<o2.pstate, o2.inv>>

BothDone ==
    /\ Len(procs) = 2
    /\ \A i \in 1..2 : procs[i].pc = "done" /\ procs[i].attempt = 1

\* C11: when an event dispatch and a State-Decay step or a refresh on the
\* same product have both completed, whatever the interleaving of their
\* reads and writes, the persisted predictor state and inventory row are
\* those of one of the two serial orders.
C11_Serializable ==
    BothDone => <<pstate, inv>> \in { Serial(procs[1], procs[2], procs[1].before),
                                      Serial(procs[2], procs[1], procs[1].before) }

\* C12: when one of the dispatcher's writes failed, the persisted predictor
\* state, inventory row and forecast snapshots are those from before the
\* dispatch.
C12_FailedDispatchLeavesStore ==
    (Len(procs) = 1 /\ procs[1].pc = "failed" /\ procs[1].attempt = 1)
    => StoreOf(pstate, inv, snapshots) = procs[1].before

\* C13: with two or more server workers, the product stocked with d0 days
\* at the start has lost at most one day per UTC day begun since: its
\* days_left never falls below max(d0 - days, 0).
C13_OneDecrementPerDay ==
    Len(sched) >= 2 =>
        QLe(QMax(QI(0), QSub(Stocked.inv.estimated_qty, QI(now))), inv.estimated_qty)

\* Day k is over for a job of worker w once its next wake-up lies after it
DayOver(w, job, k) == sched[w].wake[job] >= (k + 1) * DaySeconds

\* C14: on every UTC day that began while the worker was alive and is over,
\* each job started its run body exactly once.
C14_OncePerDay ==
    \A w \in 1..Len(sched), job \in Jobs, k \in 1..MaxSchedDay :
        DayOver(w, job, k) => ran[w][job][k] = 1

RunOver == cursor = 0

\* C15: once a State-Decay run in which the processing of one product
\* raised is over, every other product of the user that was not EMPTY has
\* its days_left decremented by one (floored at 0).
C15_OthersStillDecremented ==
    (RunOver /\ \E i \in 1..Len(prods) : prods[i].outcome = "raised")
    => \A j \in 1..Len(prods) :
         (prods[j].outcome # "raised" /\ prods[j].before.state # "EMPTY")
         => prods[j].inv.estimated_qty = DecayStep(prods[j].before.estimated_qty)

\* C16: a refresh_user call that directly follows the habit-creation refresh
\* (which divided a last prediction d by the multiplier) or another
\* refresh_user call, the habit still active, leaves the cached days_left as
\* it was.
C16_RefreshIdempotent ==
    [][ (last_op.op \in {"habit_create", "refresh"} /\ last_op.base /\ habits # <<>>
         /\ last_op'.op = "refresh")
        => inv'.estimated_qty = inv.estimated_qty ]_vars

\* The step is a task's dispatch of a purchase row
TaskDispatchesPurchase ==
    tasks # <<>> /\ tasks' = Tail(tasks) /\ last_op'.op = "dispatch" /\ last_op'.purchase

\* The step is a handler that inserts a purchase row and dispatches it itself
InlineDispatchesPurchase ==
    tasks' = tasks /\ Len(log') = Len(log) + 1 /\ last_op'.op = "dispatch"
    /\ last_op'.purchase

\* C17: whenever a purchase row is dispatched, by a scheduled task or inside
\* the handler that inserted it, the coarse state handed to apply_purchase
\* is the inventory row's state from before the handler touched the row.
C17_StateBeforePurchase ==
    [][ /\ TaskDispatchesPurchase => last_op'.current_state = Head(tasks).row_state
        /\ InlineDispatchesPurchase => last_op'.current_state = inv.state ]_vars

InUnit(x) == QLe(QI(0), x) /\ QLe(x, QI(1))

Rank(s) == CASE s = "EMPTY" -> 0 [] s = "LOW" -> 1 [] s = "MEDIUM" -> 2 [] OTHER -> 3

\* C19: for days_left d1 <= d2 and the same mean, derive_state(d1) is not
\* above derive_state(d2) in the order EMPTY < LOW < MEDIUM < FULL.
C19_DeriveStateMonotone ==
    (result # <<>> /\ args[1].fn = "derive_state")
    => Rank(result[1]) <= Rank(result[2])

\* Two calls whose results differ: LOW below the medium ratio, FULL above
\* the full ratio
C19_Witness ==
    /\ result # <<>> /\ args[1].fn = "derive_state"
    /\ QLt(args[1].days_left, args[1].more)
    /\ result = <<"LOW", "FULL">>

\* The habit's window contains now: start_date <= now <= end_date, a null
\* date leaving that side open
InWindow(row, now_) ==
    /\ (row.start_date = None \/ row.start_date <= now_)
    /\ (row.end_date = None \/ row.end_date >= now_)

RECURSIVE CurrentEffects(_, _)
CurrentEffects(rows, now_) ==
    IF rows = <<>> THEN <<>>
    ELSE (IF Head(rows).status = "ACTIVE" /\ InWindow(Head(rows), now_)
          THEN <<Head(rows).effects>> ELSE <<>>)
         \o CurrentEffects(Tail(rows), now_)

\* C20: the multiplier is the product over the ACTIVE habits whose window
\* contains now; an ACTIVE habit that starts after now or ended before now
\* contributes the factor 1.
C20_OnlyCurrentHabits ==
    (result # <<>> /\ args[1].fn = "get_active_habit_multiplier")
    => result[1] = QMax(HabitProduct(CurrentEffects(args[1].rows, args[1].now)), eps)

NoActiveHabit(rows) == \A i \in 1..Len(rows) : rows[i].status # "ACTIVE"

BaseLeft ==
    QMax(QSub(pstate'[1].cycle_mean_days,
              _days_between(now', pstate'[1].cycle_started_at)), QI(0))

C23_UserReportedRunOut ==
    [][ ( /\ last_op'.op = "dispatch" /\ last_op'.purchase
          /\ cobs # <<>> /\ pstate[1].n_completed_cycles = 0 )
        => pstate'[1].cycle_mean_days =
             _clamp(_days_between(cobs[1], pstate[1].cycle_started_at),
                    min_cycle_days, max_cycle_days) ]_vars

\* The last two log rows are the pair a 'repurchased' product action wrote,
\* and each was dispatched exactly once, by its background task
RepurchaseDispatched ==
    /\ Len(log) >= 2
    /\ log[Len(log) - 1].action = "REPURCHASE"
    /\ log[Len(log)].action = "PURCHASE"
    /\ tasks = <<>>
    /\ ndispatch[Len(log) - 1] = 1 /\ ndispatch[Len(log)] = 1

\* C24: whenever empty_at and cycle_started_at are both set,
\* empty_at >= cycle_started_at; once both background dispatches of a
\* 'repurchased' action have run, cycle_started_at is the purchase time and
\* empty_at is null.
C24_EmptyNotBeforeCycleStart ==
    pstate # <<>> =>
      /\ ( pstate[1].empty_at # None /\ pstate[1].cycle_started_at # None
             => pstate[1].empty_at >= pstate[1].cycle_started_at )
      /\ ( RepurchaseDispatched
             => /\ pstate[1].cycle_started_at = log[Len(log)].occurred_at
                /\ pstate[1].empty_at = None )

\* A purchase was dispatched on a state with an active cycle
PurchaseOnActiveCycle ==
    /\ last_op'.op = "dispatch" /\ last_op'.purchase
    /\ pstate # <<>> /\ pstate[1].cycle_started_at # None

CompletedAdded == pstate'[1].n_completed_cycles - pstate[1].n_completed_cycles

CensoredAdded == pstate'[1].censored_cycles - pstate[1].censored_cycles

\* C25 as stated: a purchase on an active cycle adds one to exactly one of
\* n_completed_cycles and censored_cycles.
C25_Original ==
    [][ PurchaseOnActiveCycle =>
          /\ CompletedAdded \in {0, 1} /\ CensoredAdded \in {0, 1}
          /\ CompletedAdded + CensoredAdded = 1 ]_vars

\* C25 amended: a purchase on an active cycle never adds to both counters;
\* it adds one to exactly one of them unless empty_at is null and the
\* inventory state handed in is none of LOW, FULL and MEDIUM, and then it
\* adds to neither.
C25_ClosedAtMostOnce ==
    [][ PurchaseOnActiveCycle =>
          /\ CompletedAdded \in {0, 1} /\ CensoredAdded \in {0, 1}
          /\ CompletedAdded + CensoredAdded =
               IF /\ pstate[1].empty_at = None
                  /\ last_op'.current_state \notin {"LOW", "FULL", "MEDIUM"}
               THEN 0 ELSE 1 ]_vars

\* A purchase row was dispatched a second time, so on an active cycle, with
\* an inventory state that is none of LOW, FULL and MEDIUM, and neither
\* counter moved
C25_Witness ==
    /\ last_op.op = "dispatch" /\ last_op.purchase
    /\ last_op.current_state \in {"EMPTY", "UNKNOWN", "NONE"}
    /\ pstate # <<>>
    /\ pstate[1].n_completed_cycles = 0 /\ pstate[1].censored_cycles = 0
    /\ pstate[1].empty_at = None
    /\ \E l \in 1..Len(log) : log[l].action = "PURCHASE" /\ ndispatch[l] >= 2

\* C26: while empty_at is set (an EMPTY report was dispatched and no purchase
\* since), the inventory row's state is EMPTY.
C26_EmptyWhileRanOut ==
    pstate # <<>> /\ pstate[1].empty_at # None => inv.state = "EMPTY"

\* C27: when a State-Decay run moves a product with an active cycle to
\* EMPTY, empty_at is set afterwards.
C27_DecayToEmptySetsEmptyAt ==
    [][ ( /\ last_op'.op = "decay"
          /\ pstate # <<>> /\ pstate[1].cycle_started_at # None
          /\ inv.state # "EMPTY" /\ inv'.state = "EMPTY" )
        => pstate'[1].empty_at # None ]_vars

\* C28: over any sequence of habit creations, updates and deletions, a
\* habit's multiplier has been divided into cycle_mean_days a net one time
\* while the habit is ACTIVE and a net zero times otherwise; deleting a habit
\* that was created INACTIVE and never updated leaves cycle_mean_days and
\* days_left unchanged.
C28_HabitAppliedOnceWhileActive ==
    [][ /\ \A i \in 1..Len(hrows') :
             hrows'[i].divided = IF hrows'[i].status = "ACTIVE" THEN 1 ELSE 0
        /\ \A i \in 1..Len(hrows) :
             ( /\ hrows[i].status = "INACTIVE" /\ hrows[i].created = "INACTIVE"
               /\ hrows'[i].status = "DELETED" )
             => /\ pstate'[1].cycle_mean_days = pstate[1].cycle_mean_days
                /\ inv'.estimated_qty = inv.estimated_qty ]_vars

\* One handler ran alone, from its first read to its last write, and no
\* write failed
CompletedAlone ==
    /\ Len(procs) = 1
    /\ procs[1].pc = "done" /\ procs[1].attempt = 1
    /\ procs[1].kind = "decay" => procs[1].before.inv.state # "EMPTY"

\* C29: after a dispatch, refresh_user, habit refresh, State-Decay step or
\* MORE/LESS feedback that ran alone to completion, the inventory row's
\* estimated_qty equals the persisted last_pred_days_left and its state is
\* derive_state(estimated_qty, cycle_mean_days); a dispatch has appended
\* exactly one forecast snapshot, with these values and the row's log_id.
C29_WritesAgree ==
    CompletedAlone =>
      /\ pstate # <<>>
      /\ inv.estimated_qty = pstate[1].last_pred_days_left
      /\ inv.state = derive_state(inv.estimated_qty, pstate[1].cycle_mean_days)
      /\ procs[1].kind = "dispatch" =>
            snapshots = Append(procs[1].before.snapshots,
                               [expected_days_left |-> inv.estimated_qty,
                                predicted_state |-> inv.state,
                                trigger |-> "dispatch",
                                trigger_log_id |-> 1])

\* A LESS feedback ran alone on the stocked product and moved its row
C29_Witness ==
    /\ CompletedAlone /\ procs[1].kind = "less"
    /\ inv # procs[1].before.inv
    /\ inv.estimated_qty = pstate[1].last_pred_days_left

\* C30: after a dispatched purchase event with time ts (the row's
\* occurred_at), whatever the prior predictor state and inventory row,
\* cycle_started_at = last_purchase_at = last_update_at = ts and empty_at is
\* null.
C30_PurchaseOpensCycle ==
    [][ \A l \in 1..Len(log') :
          ( /\ ndispatch'[l] # ndispatch[l]
            /\ last_op'.op = "dispatch" /\ last_op'.purchase )
          => /\ pstate'[1].cycle_started_at = log'[l].occurred_at
             /\ pstate'[1].last_purchase_at = log'[l].occurred_at
             /\ pstate'[1].last_update_at = log'[l].occurred_at
             /\ pstate'[1].empty_at = None ]_vars

\* A purchase row of day 0 was dispatched on day 1 on a product that had
\* been reported empty
C30_Witness ==
    /\ last_op.op = "dispatch" /\ last_op.purchase
    /\ now = 1
    /\ pstate # <<>>
    /\ pstate[1].cycle_started_at = 0 /\ pstate[1].empty_at = None
    /\ pstate[1].n_completed_cycles = 1

\* The event a step of the event sequence applied
Applied == args'[Len(args')]

\* C31: Feedback(EMPTY) sets empty_at to the event time only when empty_at
\* is null, and leaves cycle_started_at, cycle_mean_days and cycle_mad_days
\* as they were: of several EMPTY events with no purchase in between, the
\* time of the first is kept.
C31_FirstEmptyKept ==
    [][ Applied.kind = "EMPTY" =>
          /\ result'[1].empty_at =
                IF result[1].empty_at = None THEN Applied.ts ELSE result[1].empty_at
          /\ result'[1].cycle_started_at = result[1].cycle_started_at
          /\ result'[1].cycle_mean_days = result[1].cycle_mean_days
          /\ result'[1].cycle_mad_days = result[1].cycle_mad_days
          /\ ( Len(args) > 0 /\ args[Len(args)].kind = "EMPTY"
                => result'[1].empty_at = result[1].empty_at ) ]_vars

\* Two EMPTY events followed each other and the time of the first is kept
C31_Witness ==
    /\ Len(args) >= 2
    /\ args[Len(args)].kind = "EMPTY" /\ args[Len(args) - 1].kind = "EMPTY"
    /\ result[1].empty_at = args[Len(args) - 1].ts
    /\ result[1].empty_at < args[Len(args)].ts

\* C32: Feedback(MORE) or Feedback(LESS) applied to any state sets
\* last_feedback_at and last_update_at to the event time, adds one to
\* n_total_updates and changes nothing else: cycle_mean_days,
\* cycle_mad_days, cycle_started_at, empty_at, n_completed_cycles,
\* n_strong_updates, censored_cycles and waste_events stay as they were.
C32_MoreLessFrame ==
    [][ Applied.kind \in {"MORE", "LESS"} =>
          result'[1] = [result[1] EXCEPT !.last_feedback_at = Applied.ts,
                                         !.last_update_at = Applied.ts,
                                         !.n_total_updates = @ + 1] ]_vars

\* MORE or LESS was applied to a state with an open cycle that was
\* reported empty
C32_Witness ==
    /\ Len(args) >= 2
    /\ args[Len(args)].kind \in {"MORE", "LESS"}
    /\ result[1].last_feedback_at = args[Len(args)].ts
    /\ result[1].cycle_started_at # None
    /\ result[1].empty_at # None

\* The reason of a WASTED note mentions taste or expiry, or none of the
\* reasons apply_feedback knows
TasteExpiryOrUnknown(note) ==
    \/ Contains(Lower(note), "taste")
    \/ Contains(Lower(note), "expired")
    \/ ~(Contains(Lower(note), "ran out") \/ Contains(Lower(note), "empty"))

\* C33: every Feedback(WASTED) adds exactly one to waste_events and leaves
\* cycle_started_at null; when the reason mentions taste or expiry, or is
\* not a known reason, cycle_mean_days is unchanged and cycle_mad_days is
\* multiplied by 1.03 and clamped.
C33_WastedCountsAndEndsCycle ==
    [][ Applied.kind = "WASTED" =>
          /\ result'[1].waste_events = result[1].waste_events + 1
          /\ result'[1].cycle_started_at = None
          /\ ( TasteExpiryOrUnknown(Applied.note) =>
                  /\ result'[1].cycle_mean_days = result[1].cycle_mean_days
                  /\ result'[1].cycle_mad_days =
                        _clamp(QMul(result[1].cycle_mad_days, Q(103, 100)),
                               mad_floor, max_cycle_days) ) ]_vars

\* An expired product was thrown away during an open cycle: the waste is
\* counted, the cycle is gone and the spread grew
C33_Witness ==
    /\ Len(args) >= 2
    /\ args[Len(args)].kind = "WASTED" /\ args[Len(args)].note = "WASTED: Expired"
    /\ args[Len(args) - 1].kind = "PURCHASE"
    /\ result[1].waste_events >= 1
    /\ result[1].cycle_started_at = None
    /\ QLt(QMax(prior_mad_days, mad_floor), result[1].cycle_mad_days)

\* A WASTED event was applied before the step and no purchase since
WastedSinceLastPurchase ==
    \E j \in 1..Len(args) :
        /\ args[j].kind = "WASTED"
        /\ \A k \in (j + 1)..Len(args) : args[k].kind # "PURCHASE"

\* C35: a cycle ended by a WASTED event is never counted as a completed
\* cycle: the first purchase after a WASTED feedback leaves
\* cycle_mean_days, cycle_mad_days and n_completed_cycles as they were, also
\* when empty_at was set at the time the waste was reported.
C35_WastedCycleNotCompleted ==
    [][ Applied.kind = "PURCHASE" /\ WastedSinceLastPurchase =>
          /\ result'[1].cycle_mean_days = result[1].cycle_mean_days
          /\ result'[1].cycle_mad_days = result[1].cycle_mad_days
          /\ result'[1].n_completed_cycles = result[1].n_completed_cycles ]_vars

\* The product reported empty (one update counted) was then reported wasted
\* (the second update) and bought again, and no cycle was completed
C35_Witness ==
    /\ Len(args) = 2
    /\ args[1].kind = "WASTED" /\ args[2].kind = "PURCHASE"
    /\ result[1].n_total_updates = ReportedEmpty.n_total_updates + 1
    /\ result[1].last_purchase_at = args[2].ts
    /\ result[1].waste_events = 1
    /\ result[1].n_completed_cycles = 0

\* Product i is in the user's inventory and the habit names it, its
\* category, or every product
NamedByHabit(i) ==
    /\ prods[i].in_inventory
    /\ \/ i \in args[1].pm
       \/ prods[i].category \in args[1].cm
       \/ args[1].gm # NoneQ

\* C34: a habit refresh modifies only products of the user's inventory that
\* product_multipliers names, whose category category_multipliers names, or
\* any inventory product when there is a global_multiplier; the predictor
\* state and inventory row of every other product are unchanged, and a
\* failure on one affected product does not keep the loop from refreshing
\* the others.
C34_HabitRefreshScope ==
    /\ [][ \A i \in 1..Len(prods) :
             ~NamedByHabit(i) => /\ prods'[i].pstate = prods[i].pstate
                                 /\ prods'[i].inv = prods[i].inv ]_vars
    /\ [](cursor = 0 =>
             \A i \in 1..Len(prods) :
                 NamedByHabit(i) => prods[i].outcome \in {"done", "raised"})

\* The refresh returned after the body raised for one product and refreshed
\* another, and left alone a product the habit does not name
C34_Witness ==
    /\ cursor = 0
    /\ \E i, j, k \in 1..Len(prods) :
         /\ prods[i].outcome = "raised"
         /\ prods[j].outcome = "done" /\ prods[j].pstate # Stocked.pstate
         /\ prods[k].outcome = "untouched" /\ prods[k].in_inventory

\* C36: in every state reached from init_state_from_category through
\* dispatched events, refreshes and scheduler runs, n_strong_updates equals
\* n_completed_cycles, and n_completed_cycles, censored_cycles, waste_events
\* and n_total_updates of the stored predictor state never decrease.
C36_CountersAgreeAndGrow ==
    /\ [](pstate # <<>> => pstate[1].n_strong_updates = pstate[1].n_completed_cycles)
    /\ [][ pstate # <<>> /\ pstate' # <<>> =>
             /\ pstate'[1].n_completed_cycles >= pstate[1].n_completed_cycles
             /\ pstate'[1].censored_cycles >= pstate[1].censored_cycles
             /\ pstate'[1].waste_events >= pstate[1].waste_events
             /\ pstate'[1].n_total_updates >= pstate[1].n_total_updates ]_vars

\* C37: on shutdown both daily job tasks are cancelled and eventually
\* terminate, whether they sleep until midnight, after a run or after an
\* error; the jobs' generic error handler does not catch the cancellation
\* and go on with the loop.
C37_ShutdownEndsJobs ==
    /\ (result[1] = "await_weekly") ~>
          (result[1] = "stopped" /\ \A job \in Jobs : sched[job].at = "cancelled")
    /\ [][ \A job \in Jobs :
             sched[job].must_cancel /\ ~sched'[job].must_cancel
                 => sched'[job].at = "cancelled" ]_vars

\* lifespan returned after one job was cancelled in its sleep until
\* midnight and the other in its sleep after an error
C37_Witness ==
    /\ result = <<"stopped">>
    /\ \A job \in Jobs : sched[job].at = "cancelled"
    /\ \E j1, j2 \in Jobs :
          /\ sched[j1].left_at \in InTry
          /\ sched[j2].left_at = "sleep_after_error"

====
